---- MODULE Spec2Model ----
(***************************************************************************)
(* Model of the resume assistant: the polisher/critic optimisation loop    *)
(* (llm_agents/content_optimizer.py), the critic's verdict parsing, the    *)
(* bulk experiment (tests/test_content_optimizer.py) and document          *)
(* generation (resume_generator.py, app.py).                               *)
(*                                                                         *)
(* Text is a sequence of chunks; a chunk is a string that stands for the   *)
(* characters it spells, and a text spells the concatenation of its        *)
(* chunks.  The chunk "\n" is the newline character.                       *)
(***************************************************************************)
EXTENDS Integers, Sequences, FiniteSets, TLC

VARIABLES
    max_rounds,     \* ContentOptimizer.max_rounds
    opt,            \* per call of optimize_content: its locals and position
    calls,          \* per call of optimize_content: the agent calls it made
    ev_response,    \* evaluate_content: the text the service answered
    ev_result,      \* evaluate_content: the (is_satisfied, feedback) returned
    df,             \* run_experiment: the rows read from the input file
    exp_pc,         \* run_experiment: where it is
    exp_idx,        \* run_experiment: the row being processed
    exp_results,    \* run_experiment: the optimized_* columns, per row
    exp_errors,     \* run_experiment: the "Error optimizing" lines printed
    exp_saved,      \* run_experiment: the rows written by df.to_csv, or None
    gen,            \* generate_latex: its arguments, locals and position
    qc_response,    \* check_resume: the text the service answered
    qc_result,      \* check_resume: how it ended, and the result it returned
    fmt,            \* a call of a function of latex_formatter.py on its own
    app,            \* main(): the form, the button pressed, what is shown
    sc,             \* save_and_compile: its arguments, position, the disk, its result
    ui              \* ResumeUI: st.session_state and the resume_json folder

vars == <<max_rounds, opt, calls, ev_response, ev_result,
          df, exp_pc, exp_idx, exp_results, exp_errors, exp_saved, gen,
          qc_response, qc_result, fmt, app, sc, ui>>

loopVars == <<max_rounds, opt, calls>>
evalVars == <<ev_response, ev_result>>
expVars == <<df, exp_pc, exp_idx, exp_results, exp_errors, exp_saved>>
qcVars == <<qc_response, qc_result>>

(***************************************************************************)
(* Bounds of the model.                                                    *)
(***************************************************************************)
MaxRoundsBound == 3     \* max_rounds ranges over 0..MaxRoundsBound
MaxRespLen == 3         \* critic responses of up to this many chunks

(***************************************************************************)
(* Python values.                                                          *)
(***************************************************************************)
None == <<"<None>">>                    \* Python's None (never a text)
NoResult == <<"<no result>">>           \* the call has not returned
Raised == <<"<exception>">>             \* the call raised instead of answering

\* bool(x) of an Optional[str]
Truthy(x) == x # None /\ x # <<>>

Digits == {"0", "1", "2", "3", "4", "5", "6", "7", "8", "9"}

NL == "\n"

\* the first newline of s, or 0
FirstNewline(s) ==
    IF \E i \in 1..Len(s) : s[i] = NL
    THEN CHOOSE i \in 1..Len(s) : s[i] = NL /\ \A j \in 1..(i - 1) : s[j] # NL
    ELSE 0

\* s.split('\n'): the lines of s, at least one
RECURSIVE SplitLines(_)
SplitLines(s) ==
    IF FirstNewline(s) = 0 THEN <<s>>
    ELSE <<SubSeq(s, 1, FirstNewline(s) - 1)>>
         \o SplitLines(SubSeq(s, FirstNewline(s) + 1, Len(s)))

\* s.split('\n')[-1]
LastLine(s) == SplitLines(s)[Len(SplitLines(s))]

\* blank characters: a chunk is one of these or has no blank at either end
IsSpace(c) == c \in {" ", NL}

\* s.strip()
RECURSIVE Strip(_)
Strip(s) ==
    IF s = <<>> THEN s
    ELSE IF IsSpace(s[1]) THEN Strip(Tail(s))
    ELSE IF IsSpace(s[Len(s)]) THEN Strip(SubSeq(s, 1, Len(s) - 1))
    ELSE s

\* sep.join(parts)
RECURSIVE Join(_, _)
Join(sep, parts) ==
    IF parts = <<>> THEN <<>>
    ELSE IF Len(parts) = 1 THEN parts[1]
    ELSE parts[1] \o sep \o Join(sep, Tail(parts))

\* the chunks that spell a string with SATISFIED in it
ChunksWithSATISFIED == {"SATISFIED", "UNSATISFIED"}

\* "SATISFIED" in line
ContainsSATISFIED(line) == \E i \in 1..Len(line) : line[i] \in ChunksWithSATISFIED

\* t occurs in s as a contiguous piece
IsSubText(t, s) ==
    \E i \in 0..(Len(s) - Len(t)) : SubSeq(s, i + 1, i + Len(t)) = t

(***************************************************************************)
(* Inputs of the model.                                                    *)
(***************************************************************************)
Runs == {1, 2}                          \* calls of optimize_content

Contents == {<<"led team">>, <<>>}
ContentTypes == {"summary", "skills", "experience", "projects"}
LoopContentTypes == {"summary"}
JobDescriptions == {None, <<"ML engineer">>}

\* what the text-generation service may answer the polisher
RewriterTexts == {<<"drove results">>, <<"led 5 engineers">>, <<>>}

\* what the text-generation service may answer the critic
EvaluatorTexts ==
    { <<"add numbers", NL, "NEEDS_IMPROVEMENT">>,
      <<"use verbs", NL, "NEEDS_IMPROVEMENT">>,
      <<"good", NL, "SATISFIED">>,
      <<>> }

(***************************************************************************)
(* ContentPolisher                                                         *)
(***************************************************************************)
\* ContentPolisher._get_focus_points
Polisher_get_focus_points(content_type, has_job_desc) ==
    IF has_job_desc
    THEN IF content_type = "summary" THEN "<ContentPolisher._JOB_SPECIFIC_SUMMARY_POINTS>"
         ELSE IF content_type = "skills" THEN "<ContentPolisher._JOB_SPECIFIC_SKILLS_POINTS>"
         ELSE "<ContentPolisher._JOB_SPECIFIC_EXPERIENCE_POINTS>"
    ELSE IF content_type = "summary" THEN "<ContentPolisher._SUMMARY_FOCUS_POINTS>"
         ELSE IF content_type = "skills" THEN "<ContentPolisher._SKILLS_FOCUS_POINTS>"
         ELSE "<ContentPolisher._EXPERIENCE_FOCUS_POINTS>"

\* the feedback_section of polish_content
FeedbackSectionDropped(critic_feedback) == <<>>

FeedbackSection(critic_feedback) ==
    IF Truthy(critic_feedback)
    THEN <<"\nCritic's Feedback:\n">> \o critic_feedback \o <<NL>>
    ELSE <<>>

\* the job_desc_section of polish_content and of evaluate_content
JobDescSection(job_description) ==
    IF Truthy(job_description)
    THEN <<"Job Requirements:\n">> \o job_description \o <<"\n\n">>
    ELSE <<>>

\* the prompt polish_content sends: base_template filled in by _create_prompt
\* (a rubric is written as one chunk, named after the attribute that holds it)
PolishPrompt(content, content_type, job_description, critic_feedback) ==
       <<"As a professional resume content optimizer, enhance the following ">>
    \o <<content_type>>
    \o (IF ~(Truthy(job_description) \/ Truthy(critic_feedback))
        THEN <<>> ELSE <<" based on the provided context">>)
    \o <<".\n        \n        ">>
    \o JobDescSection(job_description)
    \o <<"\n        Content to Optimize:\n        ">>
    \o content
    \o <<"\n        ">>
    \o FeedbackSection(critic_feedback)
    \o <<"\n        Focus on:">>
    \o <<Polisher_get_focus_points(content_type, Truthy(job_description))>>

(***************************************************************************)
(* ContentCritic                                                           *)
(***************************************************************************)
\* the generic rubric of the content type, whatever has_job_desc is
Critic_get_generic_points(content_type, has_job_desc) ==
    IF content_type = "summary" THEN "<ContentCritic._SUMMARY_EVALUATION_POINTS>"
    ELSE IF content_type = "skills" THEN "<ContentCritic._SKILLS_EVALUATION_POINTS>"
    ELSE "<ContentCritic._EXPERIENCE_EVALUATION_POINTS>"

\* ContentCritic._get_evaluation_points
Critic_get_evaluation_points(content_type, has_job_desc) ==
    IF has_job_desc
    THEN IF content_type = "summary" THEN "<ContentCritic._JOB_SPECIFIC_SUMMARY_POINTS>"
         ELSE IF content_type = "skills" THEN "<ContentCritic._JOB_SPECIFIC_SKILLS_POINTS>"
         ELSE "<ContentCritic._JOB_SPECIFIC_EXPERIENCE_POINTS>"
    ELSE IF content_type = "summary" THEN "<ContentCritic._SUMMARY_EVALUATION_POINTS>"
         ELSE IF content_type = "skills" THEN "<ContentCritic._SKILLS_EVALUATION_POINTS>"
         ELSE "<ContentCritic._EXPERIENCE_EVALUATION_POINTS>"

\* the prompt evaluate_content sends
EvaluatePrompt(original, optimized, content_type, job_description) ==
       <<"As a critical resume reviewer, evaluate the optimized ">>
    \o <<content_type>>
    \o <<" against the original">>
    \o (IF Truthy(job_description) THEN <<" and job requirements">> ELSE <<>>)
    \o <<".\n        \n        ">>
    \o JobDescSection(job_description)
    \o <<"\n        Original Content:\n        ">>
    \o original
    \o <<"\n        \n        Optimized Content:\n        ">>
    \o optimized
    \o <<"\n        \n        Evaluate based on:">>
    \o <<Critic_get_evaluation_points(content_type, Truthy(job_description))>>
    \o <<"\n        \n        Provide specific, actionable feedback for improvement.\n        Be clear about what needs to be changed and how.\n        End your response with either SATISFIED or NEEDS_IMPROVEMENT on a new line.">>

\* is_satisfied = "SATISFIED" in feedback.split('\n')[-1]
IsSatisfied(feedback) == ContainsSATISFIED(LastLine(feedback))

\* what evaluate_content returns for the service's answer
EvaluateContent(response) ==
    [is_satisfied |-> IsSatisfied(response), feedback |-> response]

(***************************************************************************)
(* ContentOptimizer.optimize_content                                       *)
(***************************************************************************)
IdleFrame ==
    [pc |-> "idle", content |-> None, content_type |-> "", job_description |-> None,
     current_round |-> 0, optimized_content |-> None, previous_feedback |-> None,
     is_satisfied |-> FALSE, feedback |-> None, result |-> NoResult]

\* while current_round < self.max_rounds
LoopCondInclusive(current_round, bound) == current_round <= bound

LoopCondShort(current_round, bound) == current_round < bound - 1

LoopCond(current_round, bound) == current_round < bound

\* content if current_round == 0 else optimized_content
PolishInputAlwaysOriginal(current_round, content, optimized_content) == content

PolishInput(current_round, content, optimized_content) ==
    IF current_round = 0 THEN content ELSE optimized_content

\* if is_satisfied: break
BreaksNever(is_satisfied) == FALSE

Breaks(is_satisfied) == is_satisfied

\* previous_feedback = feedback
CarriedFeedbackFirstOnly(previous_feedback, feedback) ==
    IF previous_feedback = None THEN feedback ELSE previous_feedback

CarriedFeedback(previous_feedback, feedback) == feedback

\* return optimized_content
ReturnValueOriginal(f) == f.content


ReturnValue(f) == f.optimized_content

\* the loop test, and the return that follows it when it fails
AfterTest(f) ==
    IF LoopCond(f.current_round, max_rounds)
    THEN [f EXCEPT !.pc = "polish"]
    ELSE [f EXCEPT !.pc = "done", !.result = ReturnValue(f)]

CallRecord(agent, round, a, b, prompt, response, verdict) ==
    [agent |-> agent, round |-> round,
     content |-> IF agent = "polisher" THEN a ELSE None,
     critic_feedback |-> IF agent = "polisher" THEN b ELSE None,
     original |-> IF agent = "critic" THEN a ELSE None,
     optimized |-> IF agent = "critic" THEN b ELSE None,
     prompt |-> prompt, response |-> response, is_satisfied |-> verdict]

\* optimize_content is called: lines 278-282
Start(r, c, ct, jd) ==
    /\ opt[r].pc = "idle"
    /\ opt' = [opt EXCEPT ![r] =
                 AfterTest([IdleFrame EXCEPT !.content = c, !.content_type = ct,
                                             !.job_description = jd,
                                             !.current_round = 0,
                                             !.optimized_content = c,
                                             !.previous_feedback = None])]
    /\ UNCHANGED <<max_rounds, calls>>

\* as Polish, had optimized_content been an attribute of the optimizer that
\* every call in progress reads
PolishSharedCandidate(r, answers) ==
    /\ opt[r].pc = "polish"
    /\ \E response \in answers :
         LET f == opt[r]
             arg == PolishInput(f.current_round, f.content, f.optimized_content)
         IN /\ calls' = [calls EXCEPT ![r] = Append(@,
                           CallRecord("polisher", f.current_round, arg, f.previous_feedback,
                                      PolishPrompt(arg, f.content_type, f.job_description,
                                                   f.previous_feedback),
                                      response, FALSE))]
            /\ opt' = [q \in Runs |->
                         IF q = r
                         THEN [f EXCEPT !.optimized_content = response, !.pc = "evaluate"]
                         ELSE [opt[q] EXCEPT !.optimized_content = response]]
    /\ UNCHANGED max_rounds

\* as Polish, had the round bound been tested again before the critic is
\* asked, the last round's candidate being returned unevaluated
PolishUnevaluatedAtBound(r, answers) ==
    /\ opt[r].pc = "polish"
    /\ \E response \in answers :
         LET f == opt[r]
             arg == PolishInput(f.current_round, f.content, f.optimized_content)
         IN /\ calls' = [calls EXCEPT ![r] = Append(@,
                           CallRecord("polisher", f.current_round, arg, f.previous_feedback,
                                      PolishPrompt(arg, f.content_type, f.job_description,
                                                   f.previous_feedback),
                                      response, FALSE))]
            /\ opt' = [opt EXCEPT ![r] =
                         IF LoopCond(f.current_round + 1, max_rounds)
                         THEN [f EXCEPT !.optimized_content = response, !.pc = "evaluate"]
                         ELSE [f EXCEPT !.optimized_content = response, !.pc = "done",
                                        !.result = response]]
    /\ UNCHANGED max_rounds

\* self.polisher.polish_content(...) answers: lines 284-289
Polish(r, answers) ==
    /\ opt[r].pc = "polish"
    /\ \E response \in answers :
         LET f == opt[r]
             arg == PolishInput(f.current_round, f.content, f.optimized_content)
         IN /\ calls' = [calls EXCEPT ![r] = Append(@,
                           CallRecord("polisher", f.current_round, arg, f.previous_feedback,
                                      PolishPrompt(arg, f.content_type, f.job_description,
                                                   f.previous_feedback),
                                      response, FALSE))]
            /\ opt' = [opt EXCEPT ![r] = [f EXCEPT !.optimized_content = response,
                                                   !.pc = "evaluate"]]
    /\ UNCHANGED max_rounds

\* the service fails under polish_content: _call_openai raises
PolishRaises(r) ==
    /\ opt[r].pc = "polish"
    /\ LET f == opt[r]
           arg == PolishInput(f.current_round, f.content, f.optimized_content)
       IN /\ calls' = [calls EXCEPT ![r] = Append(@,
                         CallRecord("polisher", f.current_round, arg, f.previous_feedback,
                                    PolishPrompt(arg, f.content_type, f.job_description,
                                                 f.previous_feedback),
                                    Raised, FALSE))]
          /\ opt' = [opt EXCEPT ![r] = [f EXCEPT !.pc = "raised"]]
    /\ UNCHANGED max_rounds

\* self.critic.evaluate_content(...) answers, then lines 299-305
Evaluate(r, answers) ==
    /\ opt[r].pc = "evaluate"
    /\ \E response \in answers :
         LET f == opt[r]
             e == EvaluateContent(response)
             g == [f EXCEPT !.is_satisfied = e.is_satisfied, !.feedback = e.feedback]
         IN /\ calls' = [calls EXCEPT ![r] = Append(@,
                           CallRecord("critic", f.current_round, f.content,
                                      f.optimized_content,
                                      EvaluatePrompt(f.content, f.optimized_content,
                                                     f.content_type, f.job_description),
                                      response, e.is_satisfied))]
            /\ opt' = [opt EXCEPT ![r] =
                         IF Breaks(e.is_satisfied)
                         THEN [g EXCEPT !.pc = "done", !.result = ReturnValue(g)]
                         ELSE AfterTest([g EXCEPT
                                  !.previous_feedback =
                                      CarriedFeedback(f.previous_feedback, e.feedback),
                                  !.current_round = f.current_round + 1])]
    /\ UNCHANGED max_rounds

\* as EvaluateRaises, had optimize_content caught the failure and returned
\* the candidate it holds
EvaluateRaisesCaught(r) ==
    /\ opt[r].pc = "evaluate"
    /\ LET f == opt[r]
       IN /\ calls' = [calls EXCEPT ![r] = Append(@,
                         CallRecord("critic", f.current_round, f.content,
                                    f.optimized_content,
                                    EvaluatePrompt(f.content, f.optimized_content,
                                                   f.content_type, f.job_description),
                                    Raised, FALSE))]
          /\ opt' = [opt EXCEPT ![r] = [f EXCEPT !.pc = "done",
                                                 !.result = f.optimized_content]]
    /\ UNCHANGED max_rounds

\* the service fails under evaluate_content: _call_openai raises
EvaluateRaises(r) ==
    /\ opt[r].pc = "evaluate"
    /\ LET f == opt[r]
       IN /\ calls' = [calls EXCEPT ![r] = Append(@,
                         CallRecord("critic", f.current_round, f.content,
                                    f.optimized_content,
                                    EvaluatePrompt(f.content, f.optimized_content,
                                                   f.content_type, f.job_description),
                                    Raised, FALSE))]
          /\ opt' = [opt EXCEPT ![r] = [f EXCEPT !.pc = "raised"]]
    /\ UNCHANGED max_rounds

\* def optimize_content(self, content, content_type="experience", job_description=None)
OptimizeContentParams == <<"content", "content_type", "job_description">>

\* Python binding the arguments of a call of optimize_content: positional
\* arguments fill the parameters in order, and a keyword that names a
\* parameter already filled is a TypeError
BindOptimizeContent(positional, keywords) ==
    LET n == Len(positional)
        Arg(i, default) ==
            IF i <= n THEN positional[i]
            ELSE IF OptimizeContentParams[i] \in DOMAIN keywords
                 THEN keywords[OptimizeContentParams[i]]
                 ELSE default
    IN IF \/ n > Len(OptimizeContentParams)
          \/ \E i \in 1..n : OptimizeContentParams[i] \in DOMAIN keywords
          \/ \E k \in DOMAIN keywords :
                \A i \in 1..Len(OptimizeContentParams) : OptimizeContentParams[i] # k
          \/ n = 0 /\ "content" \notin DOMAIN keywords
       THEN [ok |-> FALSE, error |-> "TypeError"]
       ELSE [ok |-> TRUE, error |-> "", content |-> Arg(1, None),
             content_type |-> Arg(2, "experience"), job_description |-> Arg(3, None)]

(***************************************************************************)
(* One ContentOptimizer, one call of optimize_content.                     *)
(***************************************************************************)
InitEval ==
    /\ ev_response = None
    /\ ev_result = [is_satisfied |-> FALSE, feedback |-> None]

InitExp ==
    /\ df = <<>>
    /\ exp_pc = "idle"
    /\ exp_idx = 0
    /\ exp_results = <<>>
    /\ exp_errors = {}
    /\ exp_saved = None

\* what check_resume has to show before it is called; in a generate_latex
\* request it stands for quality_result = None
NoQualityCheck ==
    [outcome |-> "none", error |-> "", is_approved |-> FALSE, feedback |-> <<>>,
     suggested_changes |-> <<>>, estimated_pages |-> 0]

\* the locals of generate_latex before it is called; quality_calls lists the
\* documents handed to check_resume
IdleGen ==
    [pc |-> "idle", data |-> None, job_description |-> None, optimize_content |-> FALSE,
     additional_links |-> None, summary |-> None, skills |-> None, experiences |-> <<>>,
     projects |-> <<>>, projects_section |-> None, education |-> <<>>,
     certifications_section |-> None,
     publications_section |-> None, linkedin_url |-> None,
     resume |-> None, quality_result |-> NoQualityCheck, quality_calls |-> <<>>,
     error |-> "", raised_at |-> ""]

InitGen == gen = IdleGen

InitQc ==
    /\ qc_response = None
    /\ qc_result = NoQualityCheck

\* no function of latex_formatter.py has been called on its own
InitFmt == fmt = [fn |-> "none", arg |-> <<>>, result |-> <<>>]

\* main() has not run
IdleApp ==
    [pc |-> "idle", has_key |-> FALSE, button |-> "none", form |-> None, data |-> None,
     shown |-> <<>>, file_base |-> None]

InitApp == app = IdleApp

\* save_and_compile has not been called; disk is the content of the .tex file
\* (None: there is no such file), pdf whether the .pdf file exists
IdleSc ==
    [pc |-> "idle", base_filepath |-> None, latex_content |-> None, disk |-> None,
     pdf |-> FALSE,
     compiler |-> "not run", compiled_from |-> None, log |-> None,
     result |-> [success |-> FALSE, pdf_path |-> None, error_message |-> None],
     error |-> ""]

InitSc == sc = IdleSc

(***************************************************************************)
(* ResumeUI: loading and saving resumes (ui.py).  Streamlit runs main()    *)
(* again on every gesture; st.session_state lasts over the runs of one     *)
(* session.  One action is one run of main() up to the end of              *)
(* save_current_form.  The resume_json folder may hold files when the      *)
(* session starts: files of earlier sessions, or files put there by hand.  *)
(***************************************************************************)
Absent == <<"<no file>">>               \* the file does not exist

\* the names of the saved resumes, one character per element
CvName == <<"c", "v", "!">>

DraftName == <<"d", "r", "a", "f", "t">>

ResumeNames == {CvName, DraftName}

\* the phone number of a saved resume
SavedPhone == <<"5", "5", "5", "-", "0", "1", "0", "-", "0", "1", "2", "3">>

FormLabels == {"{Ada}", "{Bob}"}

\* the form's content as json.dump writes it: the first element stands for
\* the fields other than the phone number, the rest is the phone number
FormData(label, phone) == <<label>> \o phone

\* loaded_data.get('phone', '')
DataPhone(data) == Tail(data)

\* the files a folder may hold: one with a phone number, one without
FormDatas == {FormData("{Ada}", SavedPhone), FormData("{Bob}", <<>>)}

\* ResumeUI.__init__ in a fresh session: lines 16-19; phone and phone_error
\* are the session's keys of the phone widget, not set yet; shown is what
\* the current run of main() has put into the sidebar
IdleUi ==
    [current_resume_name |-> None, is_new_resume |-> TRUE,
     phone |-> None, phone_error |-> <<>>,
     files |-> [n \in ResumeNames |-> Absent], last_used |-> Absent,
     shown |-> <<>>, asked |-> "not asked", written |-> None]

InitUi == ui = IdleUi

\* st.sidebar.info / success / warning
Say(u, message) == [u EXCEPT !.shown = Append(@, message)]

\* format_phone_number: lines 21-29
format_phone_number(phone) ==
    LET IsDigit(c) == c \in Digits
        digits == SelectSeq(phone, IsDigit)
    IN IF Len(digits) >= 10
       THEN SubSeq(digits, 1, 3) \o <<"-">> \o SubSeq(digits, 4, 6) \o <<"-">>
            \o SubSeq(digits, 7, 10)
       ELSE phone

\* on_phone_change, the callback of the phone widget, for the text typed:
\* lines 31-39
on_phone_change(u, phone) ==
    LET IsDigit(c) == c \in Digits
        digits == SelectSeq(phone, IsDigit)
    IN IF Len(digits) = 10
       THEN [u EXCEPT !.phone = format_phone_number(phone), !.phone_error = <<>>]
       ELSE [u EXCEPT !.phone = phone,
                      !.phone_error = <<"Phone number must be exactly 10 digits.">>]

\* load_last_used_resume: lines 137-154
load_last_used_resume(u) ==
    IF u.last_used # Absent /\ Truthy(u.last_used) /\ u.last_used \in ResumeNames
    THEN IF u.files[u.last_used] # Absent
         THEN [u EXCEPT !.current_resume_name = u.last_used, !.is_new_resume = FALSE]
         ELSE u
    ELSE u

\* the names the selectbox of load_saved_form offers: line 49
SavedForms(u) == {n \in ResumeNames : u.files[n] # Absent}

\* load_saved_form with `selected_form` in the selectbox: lines 41-72
load_saved_form(u, selected_form) ==
    IF SavedForms(u) = {}
    THEN Say(u, <<"No saved resumes found in resume_json folder">>)
    ELSE IF Truthy(selected_form)
         THEN Say([u EXCEPT !.current_resume_name = selected_form,
                            !.is_new_resume = FALSE],
                  <<"Loaded: ">> \o selected_form)
         ELSE u

\* _save_resume: lines 118-135; `overwrite` is what the warning with the
\* Overwrite button returned
SaveResume(u, data, filename, overwrite) ==
    LET asks == u.files[filename] # Absent /\ u.is_new_resume
        v == IF asks
             THEN Say(u, <<"'">> \o filename
                         \o <<".json' already exists. Click again to overwrite.">>)
             ELSE u
    IN IF asks /\ ~overwrite
       THEN [v EXCEPT !.asked = "declined", !.written = None]
       ELSE [Say(v, <<"Resume saved as '">> \o filename \o <<".json'">>) EXCEPT
                   !.files[filename] = data,
                   !.last_used = filename,
                   !.written = filename,
                   !.asked = IF asks THEN "confirmed" ELSE "not asked"]

\* save_current_form, lines 78-80: the current name is shown
ShowCurrent(u) ==
    IF Truthy(u.current_resume_name)
    THEN Say(u, <<"Current Resume: ">> \o u.current_resume_name)
    ELSE u

\* save_current_form with Save pressed: lines 78-94
SaveButton(u, data, filename, overwrite) ==
    LET v == ShowCurrent(u)
    IN IF ~Truthy(v.current_resume_name)
       THEN IF ~Truthy(filename)
            THEN Say(v, <<"Please enter a name for the resume">>)
            ELSE SaveResume([v EXCEPT !.current_resume_name = filename,
                                      !.is_new_resume = FALSE],
                            data, filename, overwrite)
       ELSE SaveResume(v, data, v.current_resume_name, overwrite)

\* save_current_form with the Save As form submitted: lines 78-80, 96-116
SaveAsForm(u, data, filename, overwrite) ==
    LET v == ShowCurrent(u)
    IN IF ~Truthy(filename)
       THEN Say(v, <<"Please enter a name for the resume">>)
       ELSE SaveResume([v EXCEPT !.current_resume_name = filename,
                                 !.is_new_resume = FALSE],
                       data, filename, overwrite)

\* main() up to save_current_form begins: app.py lines 56-87
BeforeSave(u, selected_form) ==
    load_saved_form(load_last_used_resume([u EXCEPT !.asked = "not asked",
                                                    !.written = None,
                                                    !.shown = <<>>]),
                    selected_form)

\* what a run of main() does to the session and the sidebar when neither
\* Save nor Save As is the gesture: app.py lines 56-87
MainUi(u, selected_form) == ShowCurrent(BeforeSave(u, selected_form))

\* app.py lines 56-60: the data the form is filled from, that of the resume
\* selected in the sidebar, or else that of the resume last used
LoadedData(u, selected_form) ==
    LET saved_data ==
            IF u.last_used # Absent /\ Truthy(u.last_used) /\ u.last_used \in ResumeNames
            THEN (IF u.files[u.last_used] # Absent THEN u.files[u.last_used] ELSE None)
            ELSE None
        user_selected_data ==
            IF SavedForms(u) # {} /\ Truthy(selected_form)
            THEN u.files[selected_form] ELSE None
    IN IF user_selected_data # None THEN user_selected_data ELSE saved_data

\* ui.py lines 179-184: the phone widget returns the session's value of its
\* key when there is one, and else the phone number of the loaded data, ''
\* when nothing is loaded
PhoneWidget(u, loaded_data) ==
    IF u.phone # None THEN u.phone
    ELSE IF loaded_data # None THEN DataPhone(loaded_data)
    ELSE <<>>

\* the phone number as typed, whatever its digits
CollectPhoneAsTyped(phone) == phone

\* collect_personal_info, lines 189-193: a phone number of exactly ten digits
\* is kept, as xxx-xxx-xxxx; any other is dropped
collect_phone(phone) ==
    LET IsDigit(c) == c \in Digits
        digits == SelectSeq(phone, IsDigit)
    IN IF Len(digits) = 10
       THEN SubSeq(digits, 1, 3) \o <<"-">> \o SubSeq(digits, 4, 6) \o <<"-">>
            \o SubSeq(digits, 7, 10)
       ELSE <<>>

\* app.py lines 63-84: the data handed to save_current_form, for the other
\* fields of the form standing as `label`
SavedData(u, selected_form, label) ==
    FormData(label, collect_phone(PhoneWidget(u, LoadedData(u, selected_form))))

\* the phone numbers a user types
TypedPhones ==
    { <<"5", "5", "5">>,
      <<"(", "5", "5", "5", ")", " ", "0", "1", "0", "-", "0", "1", "2", "3">> }

\* a session starts on a folder holding any files
InitSave ==
    /\ \E files \in [ResumeNames -> FormDatas \cup {Absent}],
          last_used \in ResumeNames \cup {Absent} :
         ui = [IdleUi EXCEPT !.files = files, !.last_used = last_used]
    /\ max_rounds = 0
    /\ opt = [r \in Runs |-> IdleFrame]
    /\ calls = [r \in Runs |-> <<>>]
    /\ InitEval
    /\ InitExp
    /\ InitGen
    /\ InitQc
    /\ InitFmt
    /\ InitApp
    /\ InitSc

\* the user picks a resume in the sidebar
UiLoad ==
    /\ \E selected_form \in SavedForms(ui) \cup {<<>>} :
         ui' = MainUi(ui, selected_form)
    /\ UNCHANGED <<loopVars, evalVars, expVars, gen, qcVars, fmt, app, sc>>

\* the user types a phone number: the callback runs, then main()
UiPhoneChange ==
    /\ \E selected_form \in SavedForms(ui) \cup {<<>>}, phone \in TypedPhones :
         ui' = MainUi(on_phone_change(ui, phone), selected_form)
    /\ UNCHANGED <<loopVars, evalVars, expVars, gen, qcVars, fmt, app, sc>>

\* the user presses Save
UiSave ==
    /\ \E selected_form \in SavedForms(ui) \cup {<<>>}, label \in FormLabels,
          filename \in ResumeNames \cup {<<>>}, overwrite \in BOOLEAN :
         ui' = SaveButton(BeforeSave(ui, selected_form),
                          SavedData(ui, selected_form, label), filename, overwrite)
    /\ UNCHANGED <<loopVars, evalVars, expVars, gen, qcVars, fmt, app, sc>>

\* the user submits the Save As form
UiSaveAs ==
    /\ \E selected_form \in SavedForms(ui) \cup {<<>>}, label \in FormLabels,
          filename \in ResumeNames \cup {<<>>}, overwrite \in BOOLEAN :
         ui' = SaveAsForm(BeforeSave(ui, selected_form),
                          SavedData(ui, selected_form, label), filename, overwrite)
    /\ UNCHANGED <<loopVars, evalVars, expVars, gen, qcVars, fmt, app, sc>>

NextSave == UiLoad \/ UiPhoneChange \/ UiSave \/ UiSaveAs

SpecSave == InitSave /\ [][NextSave]_vars

Init ==
    /\ max_rounds \in 0..MaxRoundsBound
    /\ opt = [r \in Runs |-> IdleFrame]
    /\ calls = [r \in Runs |-> <<>>]
    /\ InitEval
    /\ InitExp
    /\ InitGen
    /\ InitQc
    /\ InitFmt
    /\ InitApp
    /\ InitSc
    /\ InitUi

StartOne ==
    /\ \E c \in Contents, ct \in LoopContentTypes, jd \in JobDescriptions :
         Start(1, c, ct, jd)
    /\ UNCHANGED <<evalVars, qcVars, fmt, app, sc, ui, expVars, gen>>

PolishOne == Polish(1, RewriterTexts) /\ UNCHANGED <<evalVars, qcVars, fmt, app, sc, ui, expVars, gen>>
PolishRaisesOne == PolishRaises(1) /\ UNCHANGED <<evalVars, qcVars, fmt, app, sc, ui, expVars, gen>>
EvaluateOne == Evaluate(1, EvaluatorTexts) /\ UNCHANGED <<evalVars, qcVars, fmt, app, sc, ui, expVars, gen>>
EvaluateRaisesOne == EvaluateRaises(1) /\ UNCHANGED <<evalVars, qcVars, fmt, app, sc, ui, expVars, gen>>

Next == StartOne \/ PolishOne \/ PolishRaisesOne \/ EvaluateOne \/ EvaluateRaisesOne

Spec == Init /\ [][Next]_vars

\* a call that has started keeps running until it returns or raises
FairSpec == Spec /\ WF_vars(PolishOne \/ PolishRaisesOne \/ EvaluateOne \/ EvaluateRaisesOne)

(***************************************************************************)
(* Several calls of optimize_content on one ContentOptimizer, their steps  *)
(* interleaved in any order.  The optimizer's attributes (max_rounds,      *)
(* polisher, critic) are only read; content, optimized_content,            *)
(* previous_feedback and current_round are locals of each call.            *)
(***************************************************************************)
MaxConcurrentRounds == 2    \* max_rounds ranges over 0..MaxConcurrentRounds here

\* the content each caller passes
ConcurrentContent(r) == IF r = 1 THEN <<"led team">> ELSE <<"built index">>

\* what the service answers each caller's polisher
ConcurrentRewriterTexts(r) ==
    IF r = 1 THEN {<<"drove results">>} ELSE {<<"shipped index">>}

ConcurrentEvaluatorTexts ==
    { <<"add numbers", NL, "NEEDS_IMPROVEMENT">>, <<"good", NL, "SATISFIED">> }

InitConcurrent ==
    /\ max_rounds \in 0..MaxConcurrentRounds
    /\ opt = [r \in Runs |-> IdleFrame]
    /\ calls = [r \in Runs |-> <<>>]
    /\ InitEval
    /\ InitExp
    /\ InitGen
    /\ InitQc
    /\ InitFmt
    /\ InitApp
    /\ InitSc
    /\ InitUi

StartAny ==
    /\ \E r \in Runs, ct \in ContentTypes, jd \in JobDescriptions :
         Start(r, ConcurrentContent(r), ct, jd)
    /\ UNCHANGED <<evalVars, qcVars, fmt, app, sc, ui, expVars, gen>>

PolishAny ==
    /\ \E r \in Runs : Polish(r, ConcurrentRewriterTexts(r))
    /\ UNCHANGED <<evalVars, qcVars, fmt, app, sc, ui, expVars, gen>>

PolishRaisesAny ==
    /\ \E r \in Runs : PolishRaises(r)
    /\ UNCHANGED <<evalVars, qcVars, fmt, app, sc, ui, expVars, gen>>

EvaluateAny ==
    /\ \E r \in Runs : Evaluate(r, ConcurrentEvaluatorTexts)
    /\ UNCHANGED <<evalVars, qcVars, fmt, app, sc, ui, expVars, gen>>

EvaluateRaisesAny ==
    /\ \E r \in Runs : EvaluateRaises(r)
    /\ UNCHANGED <<evalVars, qcVars, fmt, app, sc, ui, expVars, gen>>

NextConcurrent ==
    StartAny \/ PolishAny \/ PolishRaisesAny \/ EvaluateAny \/ EvaluateRaisesAny

SpecConcurrent == InitConcurrent /\ [][NextConcurrent]_vars

(***************************************************************************)
(* ContentCritic.evaluate_content on its own: the service answers with     *)
(* any text of up to MaxRespLen chunks, and the verdict is parsed from it. *)
(***************************************************************************)
DefaultMaxRounds == 3

ResponseChunks == {"SATISFIED", "NEEDS_IMPROVEMENT", "UNSATISFIED", "looks good", " ", NL}

Responses == UNION {[1..k -> ResponseChunks] : k \in 0..MaxRespLen}

InitEvaluate ==
    /\ max_rounds = DefaultMaxRounds
    /\ opt = [r \in Runs |-> IdleFrame]
    /\ calls = [r \in Runs |-> <<>>]
    /\ InitEval
    /\ InitExp
    /\ InitGen
    /\ InitQc
    /\ InitFmt
    /\ InitApp
    /\ InitSc
    /\ InitUi

\* evaluate_content: lines 241-243, for the answer of _call_openai
EvaluateContentCall ==
    /\ \E response \in Responses :
         /\ ev_response' = response
         /\ ev_result' = EvaluateContent(response)
    /\ UNCHANGED <<loopVars, expVars, gen, qcVars, fmt, app, sc, ui>>

NextEvaluate == EvaluateContentCall

SpecEvaluate == InitEvaluate /\ [][NextEvaluate]_vars

(***************************************************************************)
(* ContentOptimizerExperiment (tests/test_content_optimizer.py): every     *)
(* row of the input file has its sections optimized one after the other    *)
(* by one ContentOptimizer built with the default max_rounds.              *)
(***************************************************************************)
NumRows == 2            \* the input file holds up to this many rows

NaN == <<"<NaN>">>      \* an empty cell as pandas reads it

\* pd.notna(x)
NotNa(x) == x # NaN

ExpRows ==
    { [summary |-> <<"data engineer">>, skills |-> <<"python, sql">>,
       work_experience |-> <<"built pipelines">>, projects |-> p,
       job_description |-> <<"ML engineer">>] : p \in {<<"open source tool">>, NaN} }

ExpRewriterTexts == {<<"drove results">>}
ExpEvaluatorTexts == {<<"add numbers", NL, "NEEDS_IMPROVEMENT">>, <<"good", NL, "SATISFIED">>}

\* the sections of a row, in the order run_experiment takes them
ExpSections == <<"summary", "skills", "experience", "projects">>

\* the column a section is read from
ExpColumn(row, section) ==
    CASE section = "summary" -> row.summary
      [] section = "skills" -> row.skills
      [] section = "experience" -> row.work_experience
      [] section = "projects" -> row.projects

\* df.at[idx, 'optimized_...'] = value
ExpStore(results, idx, section, value) ==
    CASE section = "summary" -> [results EXCEPT ![idx].optimized_summary = value]
      [] section = "skills" -> [results EXCEPT ![idx].optimized_skills = value]
      [] section = "experience" ->
            [results EXCEPT ![idx].optimized_work_experience = value]
      [] section = "projects" -> [results EXCEPT ![idx].optimized_projects = value]

\* the optimized_* column of a section
ExpStored(results, idx, section) ==
    CASE section = "summary" -> results[idx].optimized_summary
      [] section = "skills" -> results[idx].optimized_skills
      [] section = "experience" -> results[idx].optimized_work_experience
      [] section = "projects" -> results[idx].optimized_projects

\* the except branch of ContentOptimizerExperiment.optimize_content
OnOptimizeErrorReraise(content) == [returns |-> FALSE, value |-> None]

OnOptimizeErrorNone(content) == [returns |-> TRUE, value |-> None]

OnOptimizeError(content) == [returns |-> TRUE, value |-> content]

\* where run_experiment goes after a section of row idx
ExpAfter(section, idx) ==
    CASE section = "summary" -> [pc |-> "skills", idx |-> idx]
      [] section = "skills" -> [pc |-> "experience", idx |-> idx]
      [] section = "experience" -> [pc |-> "projects", idx |-> idx]
      [] section = "projects" ->
            IF idx < Len(df) THEN [pc |-> "summary", idx |-> idx + 1]
            ELSE [pc |-> "save", idx |-> idx]

ExpInSection == exp_pc \in {"summary", "skills", "experience", "projects"}

InitExperiment ==
    /\ max_rounds = DefaultMaxRounds
    /\ opt = [r \in Runs |-> IdleFrame]
    /\ calls = [r \in Runs |-> <<>>]
    /\ InitEval
    /\ InitExp
    /\ InitGen
    /\ InitQc
    /\ InitFmt
    /\ InitApp
    /\ InitSc
    /\ InitUi

\* run_experiment: lines 61-67, and the first turn of the row loop
ExpRead ==
    /\ exp_pc = "idle"
    /\ \E n \in 0..NumRows : \E rows \in [1..n -> ExpRows] :
         /\ df' = rows
         /\ exp_results' = [i \in 1..n |->
                              [optimized_summary |-> None, optimized_skills |-> None,
                               optimized_work_experience |-> None,
                               optimized_projects |-> None]]
         /\ exp_idx' = IF n = 0 THEN 0 ELSE 1
         /\ exp_pc' = IF n = 0 THEN "save" ELSE "summary"
    /\ UNCHANGED <<loopVars, evalVars, qcVars, fmt, app, sc, ui, gen, exp_errors, exp_saved>>

\* self.optimize_content(...) enters self.optimizer.optimize_content: lines 48-53
ExpCall ==
    /\ ExpInSection
    /\ exp_pc = "projects" => NotNa(df[exp_idx].projects)
    /\ LET b == BindOptimizeContent(<<>>, [content |-> ExpColumn(df[exp_idx], exp_pc),
                                           content_type |-> exp_pc,
                                           job_description |-> df[exp_idx].job_description])
       IN b.ok /\ Start(1, b.content, b.content_type, b.job_description)
    /\ UNCHANGED <<evalVars, qcVars, fmt, app, sc, ui, expVars, gen>>

\* if pd.notna(row['projects']) fails: line 92
ExpSkipProjects ==
    /\ exp_pc = "projects"
    /\ ~NotNa(df[exp_idx].projects)
    /\ exp_pc' = ExpAfter(exp_pc, exp_idx).pc
    /\ exp_idx' = ExpAfter(exp_pc, exp_idx).idx
    /\ UNCHANGED <<loopVars, evalVars, qcVars, fmt, app, sc, ui, gen, df, exp_results, exp_errors, exp_saved>>

ExpPolish == Polish(1, ExpRewriterTexts) /\ UNCHANGED <<evalVars, qcVars, fmt, app, sc, ui, expVars, gen>>
ExpPolishRaises == PolishRaises(1) /\ UNCHANGED <<evalVars, qcVars, fmt, app, sc, ui, expVars, gen>>
ExpEvaluate == Evaluate(1, ExpEvaluatorTexts) /\ UNCHANGED <<evalVars, qcVars, fmt, app, sc, ui, expVars, gen>>
ExpEvaluateRaises == EvaluateRaises(1) /\ UNCHANGED <<evalVars, qcVars, fmt, app, sc, ui, expVars, gen>>

\* the optimizer returns: line 49, then df.at[idx, ...] = the value
ExpReturn ==
    /\ ExpInSection
    /\ opt[1].pc = "done"
    /\ exp_results' = ExpStore(exp_results, exp_idx, exp_pc, opt[1].result)
    /\ exp_pc' = ExpAfter(exp_pc, exp_idx).pc
    /\ exp_idx' = ExpAfter(exp_pc, exp_idx).idx
    /\ opt' = [opt EXCEPT ![1] = IdleFrame]
    /\ calls' = [calls EXCEPT ![1] = <<>>]
    /\ UNCHANGED <<max_rounds, evalVars, qcVars, fmt, app, sc, ui, gen, df, exp_errors, exp_saved>>

\* the optimizer raises: lines 54-56, then df.at[idx, ...] = the value
ExpExcept ==
    /\ ExpInSection
    /\ opt[1].pc = "raised"
    /\ LET h == OnOptimizeError(ExpColumn(df[exp_idx], exp_pc))
       IN IF h.returns
          THEN /\ exp_results' = ExpStore(exp_results, exp_idx, exp_pc, h.value)
               /\ exp_pc' = ExpAfter(exp_pc, exp_idx).pc
               /\ exp_idx' = ExpAfter(exp_pc, exp_idx).idx
               /\ exp_errors' = exp_errors \cup {<<exp_idx, exp_pc>>}
          ELSE /\ exp_pc' = "aborted"
               /\ UNCHANGED <<exp_results, exp_idx, exp_errors>>
    /\ opt' = [opt EXCEPT ![1] = IdleFrame]
    /\ calls' = [calls EXCEPT ![1] = <<>>]
    /\ UNCHANGED <<max_rounds, evalVars, qcVars, fmt, app, sc, ui, gen, df, exp_saved>>

\* df.to_csv(output_file): lines 100-103
ExpSave ==
    /\ exp_pc = "save"
    /\ exp_saved' = exp_results
    /\ exp_pc' = "finished"
    /\ UNCHANGED <<loopVars, evalVars, qcVars, fmt, app, sc, ui, gen, df, exp_idx, exp_results, exp_errors>>

NextExperiment ==
    \/ ExpRead \/ ExpCall \/ ExpSkipProjects
    \/ ExpPolish \/ ExpPolishRaises \/ ExpEvaluate \/ ExpEvaluateRaises
    \/ ExpReturn \/ ExpExcept \/ ExpSave

SpecExperiment == InitExperiment /\ [][NextExperiment]_vars

(***************************************************************************)
(* latex_formatter.py                                                      *)
(***************************************************************************)
\* the characters escape_latex replaces; each is a chunk of its own
Reserved == {"&", "%", "$", "#", "_", "{", "}", "~", "^", "\\"}

\* replacements[c]
Replacement(c) ==
    CASE c = "&" -> <<"\\", "&">>
      [] c = "%" -> <<"\\", "%">>
      [] c = "$" -> <<"\\", "$">>
      [] c = "#" -> <<"\\", "#">>
      [] c = "_" -> <<"\\", "_">>
      [] c = "{" -> <<"\\", "{">>
      [] c = "}" -> <<"\\", "}">>
      [] c = "~" -> <<"\\", "textasciitilde", "{", "}">>
      [] c = "^" -> <<"\\", "textasciicircum", "{", "}">>
      [] c = "\\" -> <<"\\", "textbackslash", "{", "}">>

\* text.replace(c, replacements[c]): every c of the text replaced
RECURSIVE ReplaceAll(_, _)
ReplaceAll(text, c) ==
    IF text = <<>> THEN <<>>
    ELSE (IF text[1] = c THEN Replacement(c) ELSE <<text[1]>>) \o ReplaceAll(Tail(text), c)

\* the keys of replacements, in order
ReservedOrder == <<"&", "%", "$", "#", "_", "{", "}", "~", "^", "\\">>

\* one str.replace after the other, each over the result of the one before
RECURSIVE ReplaceInTurn(_, _)
ReplaceInTurn(text, order) ==
    IF order = <<>> THEN text
    ELSE ReplaceInTurn(ReplaceAll(text, order[1]), Tail(order))

EscapeTextSequential(text) == ReplaceInTurn(text, ReservedOrder)

\* pattern.sub(replacer, text): one pass, left to right
RECURSIVE EscapeText(_)
EscapeText(text) ==
    IF text = <<>> THEN <<>>
    ELSE (IF text[1] \in Reserved THEN Replacement(text[1]) ELSE <<text[1]>>)
         \o EscapeText(Tail(text))

\* escape_latex(text): what is not a str is returned as it is
escape_latex(text) == IF text = None THEN None ELSE EscapeText(text)

\* line.split(':', 1), for a line with a colon in it
\* the place of the last colon of the line
LastColon(line) ==
    CHOOSE i \in 1..Len(line) : line[i] = ":" /\ \A j \in (i + 1)..Len(line) : line[j] # ":"

\* line.split(':', 1): the place of the first colon of the line
FirstColon(line) ==
    CHOOSE i \in 1..Len(line) : line[i] = ":" /\ \A j \in 1..(i - 1) : line[j] # ":"

\* the items format_skills makes of the lines, blank lines dropped
\* (the bullet character U+2022 of the source is written (bullet))
RECURSIVE SkillItems(_)
SkillItems(lines) ==
    IF lines = <<>> THEN <<>>
    ELSE LET line == Strip(lines[1])
             item ==
                 IF \E i \in 1..Len(line) : line[i] = ":"
                 THEN <<    <<"\\item[(bullet)] \\textbf{">>
                         \o escape_latex(Strip(SubSeq(line, 1, FirstColon(line) - 1)))
                         \o <<":} ">>
                         \o escape_latex(Strip(SubSeq(line, FirstColon(line) + 1, Len(line)))) >>
                 ELSE IF line # <<>>
                 THEN << <<"\\item[(bullet)] ">> \o escape_latex(line) >>
                 ELSE <<>>
         IN item \o SkillItems(Tail(lines))

format_skills(skills_text) ==
    IF ~Truthy(skills_text) THEN <<>>
    ELSE    <<"\\begin{itemize}[leftmargin=*, topsep=0pt, itemsep=0pt, parsep=0pt]", NL>>
         \o Join(<<NL>>, SkillItems(SplitLines(Strip(skills_text))))
         \o <<NL, "\\end{itemize}">>

\* the \resumeItem lines format_project makes of the bullets, blank ones dropped
RECURSIVE ProjectBullets(_)
ProjectBullets(bullets) ==
    IF bullets = <<>> THEN <<>>
    ELSE (IF Strip(bullets[1]) # <<>>
          THEN << <<"\\resumeItem{">> \o escape_latex(Strip(bullets[1])) \o <<"}">> >>
          ELSE <<>>)
         \o ProjectBullets(Tail(bullets))

format_project(name, technologies, dates, description) ==
       <<"\\resumeSubheading\n        {">> \o escape_latex(name)
    \o <<"}\n        {">> \o escape_latex(dates)
    \o <<"}\n        {">> \o escape_latex(technologies)
    \o <<"}\n        {}\n        \\resumeItemListStart\n        ">>
    \o Join(<<NL>>, ProjectBullets(SplitLines(Strip(escape_latex(description)))))
    \o <<"\n        \\resumeItemListEnd\n    ">>

\* the \resumeItem lines format_experience makes of a project's bullets
RECURSIVE ExperienceBullets(_)
ExperienceBullets(bullets) ==
    IF bullets = <<>> THEN <<>>
    ELSE (IF Strip(bullets[1]) # <<>>
          THEN <<"\n\\resumeItem{">> \o escape_latex(Strip(bullets[1])) \o <<"}">>
          ELSE <<>>)
         \o ExperienceBullets(Tail(bullets))

\* project_str of format_experience, for one project of the experience
ExperienceProject(project) ==
       <<"\\vspace{-2pt}\n\\hspace{15pt}\\textbf{">> \o escape_latex(project.title) \o <<"}">>
    \o (IF /\ Truthy(project.description)
           /\ ExperienceBullets(SplitLines(Strip(project.description))) # <<>>
        THEN    <<"\n\\begin{itemize}[leftmargin=15pt, label={\\textbullet}, topsep=0pt, itemsep=0pt]">>
             \o ExperienceBullets(SplitLines(Strip(project.description)))
             \o <<"\n\\end{itemize}">>
        ELSE <<>>)

\* project_parts of format_experience
RECURSIVE ExperienceProjects(_)
ExperienceProjects(projects) ==
    IF projects = <<>> THEN <<>>
    ELSE <<ExperienceProject(projects[1])>> \o ExperienceProjects(Tail(projects))

format_experience(company, role, dates, location, projects) ==
       <<"\\item\n    \n ">>
    \o <<"\\textbf{\\large ">> \o escape_latex(company) \o <<"} \\hfill ">>
    \o escape_latex(location) \o <<" \\ \\vspace{-2pt}\n    \n ">>
    \o <<"\\textit{">> \o escape_latex(role) \o <<"} \\hfill ">> \o escape_latex(dates)
    \o <<" \\\\ \n    ">>
    \o Join(<<NL>>, ExperienceProjects(projects))
    \o <<"\n    ">>

\* the parts of format_education's line that are not empty
EducationParts(school, degree, dates, location, gpa) ==
    LET Keep(part) == part # <<>>
    IN SelectSeq(<< escape_latex(degree),
                    <<"\\textbf{">> \o escape_latex(school) \o <<"}">>,
                    IF Truthy(location) THEN escape_latex(location) ELSE <<>>,
                    IF Truthy(gpa) THEN <<"GPA ">> \o escape_latex(gpa) ELSE <<>>,
                    escape_latex(dates) >>, Keep)

format_education(school, degree, dates, location, gpa) ==
       <<"\\vspace{0pt}\\item\n">>
    \o Join(<<" $|$ ">>, EducationParts(school, degree, dates, location, gpa))
    \o <<"\\vspace{-6pt}\n">>

\* publications_items of format_publications
RECURSIVE PublicationItems(_)
PublicationItems(publications) ==
    IF publications = <<>> THEN <<>>
    ELSE << <<"\\item ">> \o publications[1] >> \o PublicationItems(Tail(publications))

\* format_publications without lines 162-163
FormatPublicationsAlwaysHeaded(publications) ==
       <<NL, "\\section{Publications}", NL, "\\begin{enumerate}", NL>>
    \o Join(<<NL>>, PublicationItems(publications))
    \o <<NL, "\\end{enumerate}">>

format_publications(publications) ==
    IF publications = <<>> THEN <<>>
    ELSE    <<NL, "\\section{Publications}", NL, "\\begin{enumerate}", NL>>
         \o Join(<<NL>>, PublicationItems(publications))
         \o <<NL, "\\end{enumerate}">>

format_contact_links(github, portfolio, linkedin) ==
       (IF Truthy(github)
        THEN <<"$|$ \\faIcon{github} \\href{">> \o github \o <<"}{GitHub}">> ELSE <<>>)
    \o (IF Truthy(portfolio)
        THEN <<"$|$ \\faIcon{globe} \\href{">> \o portfolio \o <<"}{">> \o portfolio \o <<"}">>
        ELSE <<>>)
    \o (IF Truthy(linkedin)
        THEN <<"$|$ \\faIcon{linkedin} \\href{">> \o linkedin \o <<"}{LinkedIn}">>
        ELSE <<>>)

\* cert_lines of format_certifications
CertificationLine(cert) ==
    LET name == escape_latex(cert.name)
        issued == escape_latex(cert.issued)
        expires == IF Truthy(cert.expires) THEN escape_latex(cert.expires) ELSE <<>>
        date_range == IF expires # <<>> THEN issued \o <<" - ">> \o expires ELSE issued
    IN    <<"\\item", NL, NL, " ">>
       \o (IF date_range # <<>> THEN name \o <<" \\hfill ">> \o date_range ELSE name)

RECURSIVE CertificationLines(_)
CertificationLines(certifications) ==
    IF certifications = <<>> THEN <<>>
    ELSE <<CertificationLine(certifications[1])>> \o CertificationLines(Tail(certifications))

format_certifications(certifications) ==
    IF certifications = <<>> THEN <<>>
    ELSE    <<"\\section{Certifications}", NL, "\\resumeSubHeadingListStart", NL>>
         \o Join(<<NL>>, CertificationLines(certifications))
         \o <<NL, "\\resumeSubHeadingListEnd">>

(***************************************************************************)
(* ResumeQualityChecker.check_resume (llm_agents/resume_checker.py): the   *)
(* parsing of the service's answer.                                        *)
(***************************************************************************)
MaxFieldLen == 4        \* field texts of up to this many chunks
MaxChanges == 2         \* up to this many lines after SUGGESTED_CHANGES:

\* estimated_pages = 1.0  # default if not found
DefaultEstimatedPages == 1

\* a float is written as the whole number of 10^-MaxFieldLen units it holds
PageScale == 10 ^ MaxFieldLen

\* s.startswith(p)
StartsWith(s, p) == Len(s) >= Len(p) /\ SubSeq(s, 1, Len(p)) = p

\* the first chunk c of s, or 0
FirstOf(s, c) ==
    IF \E i \in 1..Len(s) : s[i] = c
    THEN CHOOSE i \in 1..Len(s) : s[i] = c /\ \A j \in 1..(i - 1) : s[j] # c
    ELSE 0

\* s.split(c): the pieces of s between the chunks c, at least one
RECURSIVE SplitOn(_, _)
SplitOn(s, c) ==
    IF FirstOf(s, c) = 0 THEN <<s>>
    ELSE <<SubSeq(s, 1, FirstOf(s, c) - 1)>>
         \o SplitOn(SubSeq(s, FirstOf(s, c) + 1, Len(s)), c)

\* s.find(p): the chunk at which the first occurrence of p starts, or 0
\* where Python gives -1
Find(s, p) ==
    LET At(i) == i + Len(p) - 1 <= Len(s) /\ SubSeq(s, i, i + Len(p) - 1) = p
    IN IF \E i \in 1..Len(s) : At(i)
       THEN CHOOSE i \in 1..Len(s) : At(i) /\ \A j \in 1..(i - 1) : ~At(j)
       ELSE 0

\* the lines of `lines` that start with p, in order
LinesStarting(lines, p) ==
    LET Has(line) == StartsWith(line, p) IN SelectSeq(lines, Has)


DigitVal(c) ==
    CASE c = "0" -> 0 [] c = "1" -> 1 [] c = "2" -> 2 [] c = "3" -> 3 [] c = "4" -> 4
      [] c = "5" -> 5 [] c = "6" -> 6 [] c = "7" -> 7 [] c = "8" -> 8 [] c = "9" -> 9

\* the end of the run of digits that starts at i
RunEnd(s, i) ==
    CHOOSE j \in i..Len(s) :
        /\ \A k \in i..j : s[k] \in Digits
        /\ j = Len(s) \/ s[j + 1] \notin Digits

\* re.search(r'\d+(\.\d+)?', s): the leftmost match, its digits before and
\* after the point
ReSearchNumber(s) ==
    IF \A i \in 1..Len(s) : s[i] \notin Digits
    THEN [found |-> FALSE, whole |-> <<>>, frac |-> <<>>]
    ELSE LET i == CHOOSE i \in 1..Len(s) :
                      s[i] \in Digits /\ \A j \in 1..(i - 1) : s[j] \notin Digits
             j == RunEnd(s, i)
             pt == j + 2 <= Len(s) /\ s[j + 1] = "." /\ s[j + 2] \in Digits
         IN [found |-> TRUE, whole |-> SubSeq(s, i, j),
             frac |-> IF pt THEN SubSeq(s, j + 2, RunEnd(s, j + 2)) ELSE <<>>]

\* the number a run of digits spells
RECURSIVE DigitsVal(_)
DigitsVal(ds) ==
    IF ds = <<>> THEN 0 ELSE 10 * DigitsVal(SubSeq(ds, 1, Len(ds) - 1)) + DigitVal(ds[Len(ds)])

\* float(match.group(0)), in units of 1/PageScale
Float(m) ==
    DigitsVal(m.whole) * PageScale + DigitsVal(m.frac) * 10 ^ (MaxFieldLen - Len(m.frac))

\* the chunks that spell a string with YES in it
ChunksWithYES == {"YES", "YESTERDAY", "EYES"}

\* 'YES' in s
ContainsYES(s) == \E i \in 1..Len(s) : s[i] \in ChunksWithYES

\* the chunks of one character
OneCharChunks == Digits \cup {" ", NL, ":", ".", "-"}

\* c[:-1] for the chunks of more than one character a response ends with
ChopLast(c) ==
    CASE c = "solid" -> "soli"
      [] c = "YES" -> "YE"
      [] c = "NO" -> "N"
      [] c = "trim" -> "tri"

\* s[:-1]
DropLastChar(s) ==
    IF s = <<>> THEN <<>>
    ELSE IF s[Len(s)] \in OneCharChunks THEN SubSeq(s, 1, Len(s) - 1)
    ELSE SubSeq(s, 1, Len(s) - 1) \o <<ChopLast(s[Len(s)])>>

\* c[8:] for the chunks of eight characters or more a response starts with
ChopFirst8(c) ==
    CASE c = "ESTIMATED_PAGES" -> <<"D_PAGES">>
      [] c = "APPROVED" -> <<>>
      [] c = "Here is my review" -> <<"my review">>

\* s[8:]
DropFirst8(s) == IF s = <<>> THEN <<>> ELSE ChopFirst8(s[1]) \o Tail(s)

\* change.strip('- ')
RECURSIVE StripDashes(_)
StripDashes(s) ==
    IF s = <<>> THEN s
    ELSE IF s[1] \in {"-", " "} THEN StripDashes(Tail(s))
    ELSE IF s[Len(s)] \in {"-", " "} THEN StripDashes(SubSeq(s, 1, Len(s) - 1))
    ELSE s

\* [change.strip('- ').strip() for change in changes_section
\*  if change.strip().startswith('-')]
RECURSIVE SuggestedChanges(_)
SuggestedChanges(changes_section) ==
    IF changes_section = <<>> THEN <<>>
    ELSE (IF StartsWith(Strip(changes_section[1]), <<"-">>)
          THEN <<Strip(StripDashes(changes_section[1]))>>
          ELSE <<>>)
         \o SuggestedChanges(Tail(changes_section))

\* check_resume raises at line `error` names
QcRaised(error) ==
    [outcome |-> "raised", error |-> error, is_approved |-> FALSE, feedback |-> <<>>,
     suggested_changes |-> <<>>, estimated_pages |-> 0]

\* response[feedback_start:changes_start].strip(), where fi and ci are the
\* chunks at which 'FEEDBACK:' and 'SUGGESTED_CHANGES:' were found (0: not
\* found, and then Python slices from character 8, or up to the last one)
FeedbackSlice(response, fi, ci) ==
    Strip(CASE fi > 0 /\ ci > 0 -> SubSeq(response, fi + 2, ci - 1)
            [] fi > 0 /\ ci = 0 -> DropLastChar(SubSeq(response, fi + 2, Len(response)))
            [] fi = 0 /\ ci > 0 ->
                  IF ci = 1 THEN <<>> ELSE DropFirst8(SubSeq(response, 1, ci - 1))
            [] fi = 0 /\ ci = 0 -> DropLastChar(DropFirst8(response)))

\* response[changes_start:].split('\n')[1:]
ChangesSection(response, ci) ==
    IF ci > 0 THEN Tail(SplitLines(SubSeq(response, ci, Len(response))))
    ELSE IF response # <<>> /\ response[Len(response)] = NL THEN << <<>> >>
    ELSE <<>>

\* check_resume: lines 76-97, for the answer of _call_openai
check_resume(response) ==
    LET lines == SplitLines(response)
        pages_lines == LinesStarting(lines, <<"ESTIMATED_PAGES", ":">>)
        approved_lines == LinesStarting(lines, <<"APPROVED", ":">>)
    IN IF pages_lines = <<>> THEN QcRaised("StopIteration")
       ELSE IF approved_lines = <<>> THEN QcRaised("StopIteration")
       ELSE LET pages_str == Strip(SplitOn(pages_lines[1], ":")[2])
                match == ReSearchNumber(pages_str)
                ci == Find(response, <<"SUGGESTED_CHANGES", ":">>)
            IN [outcome |-> "returned", error |-> "",
                is_approved |-> ContainsYES(Strip(SplitOn(approved_lines[1], ":")[2])),
                feedback |-> FeedbackSlice(response, Find(response, <<"FEEDBACK", ":">>), ci),
                suggested_changes |-> SuggestedChanges(ChangesSection(response, ci)),
                estimated_pages |-> IF match.found THEN Float(match)
                                    ELSE DefaultEstimatedPages * PageScale]

(***************************************************************************)
(* check_resume on its own: the service answers with a text, and the       *)
(* result is parsed from it.  The answers are texts in the format the      *)
(* prompt asks for, with any text in the ESTIMATED_PAGES or the APPROVED   *)
(* field, and texts in which fields are missing.                           *)
(***************************************************************************)
\* every text of up to n chunks of `alphabet`
TextsOver(alphabet, n) == UNION {[1..k -> alphabet] : k \in 0..n}

PagesChunks == {" ", ":", ".", "1", "5", "pages"}
ApprovedChunks == {" ", ":", "YES", "NO", "YESTERDAY", "EYES"}

PagesLine(t) == <<"ESTIMATED_PAGES", ":">> \o t
ApprovedLine(t) == <<"APPROVED", ":">> \o t
FeedbackLine == <<"FEEDBACK", ":", " ", "solid">>
ChangeLines == {<<"-", " ", "trim">>, <<"trim">>, <<>>}

\* SUGGESTED_CHANGES: and the lines after it
ChangesBlocks ==
    { Join(<<NL>>, << <<"SUGGESTED_CHANGES", ":">> >> \o cs) :
        cs \in UNION {[1..k -> ChangeLines] : k \in 0..MaxChanges} }

\* answers with every field, and any text in the ESTIMATED_PAGES field
QcPagesResponses ==
    { Join(<<NL>>, <<PagesLine(t), ApprovedLine(<<" ", "YES">>), FeedbackLine,
                     <<"SUGGESTED_CHANGES", ":">>, <<"-", " ", "trim">> >>) :
        t \in TextsOver(PagesChunks, MaxFieldLen) }

\* answers with every field, and any text in the APPROVED field
QcApprovedResponses ==
    { Join(<<NL>>, <<PagesLine(<<" ", "2">>), ApprovedLine(t), FeedbackLine,
                     <<"SUGGESTED_CHANGES", ":">>, <<"-", " ", "trim">> >>) :
        t \in TextsOver(ApprovedChunks, MaxFieldLen) }

\* the lines of `parts` that are there (an absent part is None)
RECURSIVE Present(_)
Present(parts) ==
    IF parts = <<>> THEN <<>>
    ELSE (IF parts[1] = None THEN <<>> ELSE <<parts[1]>>) \o Present(Tail(parts))

\* answers in which any of the fields may be missing
QcPartialResponses ==
    { Join(<<NL>>, Present(<<intro, pages, approved, fb, changes>>)) \o ending :
        intro \in {None, <<"Here is my review">>},
        pages \in {None, PagesLine(<<" ", "2">>)},
        approved \in {None, ApprovedLine(<<" ", "YES">>), ApprovedLine(<<" ", "NO">>)},
        fb \in {None, FeedbackLine},
        changes \in {None} \cup ChangesBlocks,
        ending \in {<<>>, <<NL>>} }

QcResponses == QcPagesResponses \cup QcApprovedResponses \cup QcPartialResponses

InitCheckResume ==
    /\ max_rounds = DefaultMaxRounds
    /\ opt = [r \in Runs |-> IdleFrame]
    /\ calls = [r \in Runs |-> <<>>]
    /\ InitEval
    /\ InitExp
    /\ InitGen
    /\ InitQc
    /\ InitFmt
    /\ InitApp
    /\ InitSc
    /\ InitUi

\* check_resume: lines 73-97, for the answer of _call_openai
CheckResumeCall ==
    /\ qc_result.outcome = "none"
    /\ \E response \in QcResponses :
         /\ qc_response' = response
         /\ qc_result' = check_resume(response)
    /\ UNCHANGED <<loopVars, evalVars, expVars, gen, fmt, app, sc, ui>>

NextCheckResume == CheckResumeCall

SpecCheckResume == InitCheckResume /\ [][NextCheckResume]_vars

(***************************************************************************)
(* The functions of latex_formatter.py on their own: one is called with    *)
(* an argument, and returns.                                               *)
(***************************************************************************)
MaxTextLen == 3         \* texts to escape of up to this many chunks

\* the characters of the texts to escape: every reserved one, and letters
EscapeChunks == Reserved \cup {"R", "D"}

MaxSkillLines == 2      \* skills texts of up to this many lines
MaxEntries == 2         \* publications and certifications, at most

\* every list of up to n members of `members`
ListsOver(members, n) == UNION {[1..k -> members] : k \in 0..n}

\* the lines a skills text is made of: with one colon, with two, with none,
\* blank, and with spaces around the colon
SkillLines ==
    { <<"R", "&", "D", ":", " ", "testing">>,
      <<"Languages", ":", " ", "Python,", " ", "Go", ":", "x">>,
      <<"plain", "_", "line">>,
      <<" ">>,
      <<" ", "a", "&", "b", " ", ":", " ", "c", "%", " ">> }

\* the skills texts: the texts of those lines, and every short text of
\* letters, ampersands, colons, spaces and line ends
SkillTexts ==
    { Join(<<NL>>, lines) : lines \in ListsOver(SkillLines, MaxSkillLines) }
    \cup TextsOver({"R", "&", ":", " ", NL}, MaxTextLen)

\* a project of the resume data
GenProject ==
    [name |-> <<"route planner">>, technologies |-> <<"Go">>, dates |-> <<"2021">>,
     description |-> <<"built", " ", "planner", NL, "50", "%", " ", "faster">>]

\* another
GenProjectB ==
    [name |-> <<"R", "&", "D", " ", "tool">>, technologies |-> <<"C", "#">>,
     dates |-> <<"2022">>, description |-> <<"ships", " ", "daily">>]

\* the lines a project description is made of
ProjectLines ==
    { <<"built", " ", "planner">>, <<" ", "50", "%", " ", "faster", " ">>,
      <<"R", "&", "D">>, <<" ">> }

PublicationTexts == {<<"Paper", " ", "A">>, <<"B", " ", "&", " ", "C">>}

CertificationEntries ==
    { [name |-> <<"AWS">>, issued |-> <<"2020">>, expires |-> <<"2023">>],
      [name |-> <<"C", "&", "D">>, issued |-> <<"2021">>, expires |-> <<>>],
      [name |-> <<"X">>, issued |-> <<>>, expires |-> <<>>] }

InitFormat ==
    /\ max_rounds = DefaultMaxRounds
    /\ opt = [r \in Runs |-> IdleFrame]
    /\ calls = [r \in Runs |-> <<>>]
    /\ InitEval
    /\ InitExp
    /\ InitGen
    /\ InitQc
    /\ InitFmt
    /\ InitApp
    /\ InitSc
    /\ InitUi

\* escape_latex(text)
EscapeLatexCall ==
    /\ fmt.fn = "none"
    /\ \E text \in TextsOver(EscapeChunks, MaxTextLen) :
         fmt' = [fn |-> "escape_latex", arg |-> text, result |-> escape_latex(text)]
    /\ UNCHANGED <<loopVars, evalVars, expVars, gen, qcVars, app, sc, ui>>

\* format_skills(skills_text)
FormatSkillsCall ==
    /\ fmt.fn = "none"
    /\ \E skills_text \in SkillTexts :
         fmt' = [fn |-> "format_skills", arg |-> skills_text,
                 result |-> format_skills(skills_text)]
    /\ UNCHANGED <<loopVars, evalVars, expVars, gen, qcVars, app, sc, ui>>

\* format_publications(publications)
FormatPublicationsCall ==
    /\ fmt.fn = "none"
    /\ \E publications \in ListsOver(PublicationTexts, MaxEntries) :
         fmt' = [fn |-> "format_publications", arg |-> publications,
                 result |-> format_publications(publications)]
    /\ UNCHANGED <<loopVars, evalVars, expVars, gen, qcVars, app, sc, ui>>

\* format_certifications(certifications)
FormatCertificationsCall ==
    /\ fmt.fn = "none"
    /\ \E certifications \in ListsOver(CertificationEntries, MaxEntries) :
         fmt' = [fn |-> "format_certifications", arg |-> certifications,
                 result |-> format_certifications(certifications)]
    /\ UNCHANGED <<loopVars, evalVars, expVars, gen, qcVars, app, sc, ui>>

\* format_project(name, technologies, dates, description)
FormatProjectCall ==
    /\ fmt.fn = "none"
    /\ \E lines \in ListsOver(ProjectLines, MaxEntries) :
         LET project == [GenProject EXCEPT !.description = Join(<<NL>>, lines)]
         IN fmt' = [fn |-> "format_project", arg |-> project,
                    result |-> format_project(project.name, project.technologies,
                                              project.dates, project.description)]
    /\ UNCHANGED <<loopVars, evalVars, expVars, gen, qcVars, app, sc, ui>>

NextFormat ==
    \/ EscapeLatexCall \/ FormatSkillsCall
    \/ FormatPublicationsCall \/ FormatCertificationsCall \/ FormatProjectCall

SpecFormat == InitFormat /\ [][NextFormat]_vars

(***************************************************************************)
(* ResumeGenerator.generate_latex                                          *)
(***************************************************************************)
\* self.optimizer.optimize_content(text, job_description, content_type=...)
\*     if optimize_content and job_description else text
GenRefine(g, text, content_type) ==
    IF g.optimize_content /\ Truthy(g.job_description)
    THEN LET b == BindOptimizeContent(<<text, g.job_description>>,
                                      [content_type |-> content_type])
         IN IF b.ok THEN [outcome |-> "call", bound |-> b]
            ELSE [outcome |-> "raise", error |-> b.error]
    ELSE [outcome |-> "plain", value |-> text]

\* lines 88-97: the fragment of every experience record, in the list's order
RECURSIVE FormatExperiences(_)
FormatExperiences(experience) ==
    IF experience = <<>> THEN <<>>
    ELSE <<format_experience(experience[1].company, experience[1].role,
                             experience[1].dates, experience[1].location,
                             experience[1].projects)>>
         \o FormatExperiences(Tail(experience))

\* lines 120-129
RECURSIVE FormatEducations(_)
FormatEducations(education) ==
    IF education = <<>> THEN <<>>
    ELSE <<format_education(education[1].school, education[1].degree,
                            education[1].dates, education[1].location,
                            education[1].gpa)>>
         \o FormatEducations(Tail(education))

\* line 136: [escape_latex(pub) for pub in publications]
RECURSIVE EscapeEach(_)
EscapeEach(publications) ==
    IF publications = <<>> THEN <<>>
    ELSE <<escape_latex(publications[1])>> \o EscapeEach(Tail(publications))

\* url.lstrip('/ ')
RECURSIVE LStripSlashes(_)
LStripSlashes(url) ==
    IF url # <<>> /\ url[1] \in {"/", " "} THEN LStripSlashes(Tail(url)) ELSE url

\* lines 140-142; in an address ":" and "/" are chunks of their own
LinkedinUrl(linkedin) ==
    IF /\ Truthy(linkedin)
       /\ ~StartsWith(linkedin, <<"http", ":", "/", "/">>)
       /\ ~StartsWith(linkedin, <<"https", ":", "/", "/">>)
    THEN <<"https", ":", "/", "/">> \o LStripSlashes(linkedin)
    ELSE linkedin

\* lines 145-159: the template with every slot filled, slot by slot
Document(g) ==
    [name |-> g.data.name, email |-> g.data.email, phone |-> g.data.phone,
     location |-> g.data.location, linkedin |-> g.linkedin_url,
     additional_links |-> g.additional_links,
     summary |-> escape_latex(g.summary),
     skills |-> g.skills,
     experience |-> Join(<<NL>>, g.experiences),
     projects |-> g.projects_section,
     education |-> Join(<<NL>>, g.education),
     certifications_section |-> g.certifications_section,
     publications_section |-> g.publications_section]

\* line 163: whether the quality check is made
RunsQualityCheckAlways(optimize_content) == TRUE

RunsQualityCheck(optimize_content) == optimize_content

GenExperienceA ==
    [company |-> <<"Acme", " ", "&", " ", "Co">>, role |-> <<"Engineer">>,
     dates |-> <<"2020">>, location |-> <<"NY">>,
     projects |-> <<[title |-> <<"Search">>,
                     description |-> <<"built", " ", "index", NL, "cut", " ", "cost">>]>>]

GenExperienceB ==
    [company |-> <<"Birch">>, role |-> <<"Intern">>, dates |-> <<"2018">>,
     location |-> <<>>, projects |-> <<>>]

\* a key a record does not have
NoKey == <<"<no key>">>

\* a record whose company is empty
GenExperienceGhost ==
    [company |-> <<>>, role |-> <<"Ghost">>, dates |-> <<"2019">>,
     location |-> <<>>, projects |-> <<>>]

\* a record without the key 'role'
GenExperienceKeyless ==
    [company |-> <<"Nameless">>, role |-> NoKey, dates |-> <<"2017">>,
     location |-> <<>>, projects |-> <<>>]

GenEducation ==
    [school |-> <<"MIT">>, degree |-> <<"BS">>, dates |-> <<"2010">>,
     location |-> None, gpa |-> <<"3", ".", "9">>]

\* the optional parts of a request: none of them, or all of them
GenExtras ==
    { [linkedin |-> <<"https", ":", "/", "/", "linkedin.com", "/", "x">>, github |-> <<>>,
       portfolio |-> <<>>, certifications |-> <<>>, publications |-> <<>>],
      [linkedin |-> <<"/", " ", "linkedin.com", "/", "x">>, github |-> <<"github.com", "/", "x">>,
       portfolio |-> <<"x.dev">>,
       certifications |-> <<[name |-> <<"AWS">>, issued |-> <<"2020">>,
                             expires |-> <<"2023">>]>>,
       publications |-> << <<"Paper", " ", "A">>, <<"B", " ", "&", " ", "C">> >>] }

\* the resume data of a request
GenData(sm, sk, ex, pj, extras) ==
    [name |-> <<"Ada">>, email |-> <<"ada@x.org">>, phone |-> <<"555">>,
     location |-> <<"Boston">>, linkedin |-> extras.linkedin,
     github |-> extras.github, portfolio |-> extras.portfolio,
     summary |-> sm, skills |-> sk, experience |-> ex, projects |-> pj,
     education |-> <<GenEducation>>, certifications |-> extras.certifications,
     publications |-> extras.publications]

GenSummaries == {<<"platform engineer">>, <<"R", "&", "D", " ", "lead">>}

GenSkillTexts == {<<"Languages", ":", " ", "Python">>, <<"R", "&", "D", ":", " ", "testing">>}

GenDatas ==
    { GenData(sm, sk, ex, pj, extras) :
        sm \in GenSummaries, sk \in GenSkillTexts,
        ex \in {<<GenExperienceA>>, <<GenExperienceB, GenExperienceA>>,
                <<GenExperienceGhost, GenExperienceA>>,
                <<GenExperienceA, GenExperienceKeyless, GenExperienceB>>},
        pj \in {<<>>, <<GenProject>>, <<GenProject, GenProjectB>>,
                <<GenProjectB, GenProject>>},
        extras \in GenExtras }

GenJobDescriptions == {None, <<>>, <<"ML engineer">>}

\* what the service may answer to the quality check's prompt
GenQualityResponses ==
    { Join(<<NL>>, <<PagesLine(<<" ", "2">>), ApprovedLine(<<" ", "YES">>), FeedbackLine,
                     <<"SUGGESTED_CHANGES", ":">>, <<"-", " ", "trim">> >>),
      Join(<<NL>>, <<PagesLine(<<" ", "3">>), ApprovedLine(<<" ", "NO">>), FeedbackLine>>),
      <<"I cannot review this">> }

InitGenerate ==
    /\ max_rounds = DefaultMaxRounds
    /\ opt = [r \in Runs |-> IdleFrame]
    /\ calls = [r \in Runs |-> <<>>]
    /\ InitEval
    /\ InitExp
    /\ InitGen
    /\ InitQc
    /\ InitFmt
    /\ InitApp
    /\ InitSc
    /\ InitUi

\* generate_latex(data, job_description, optimize_content) is entered: lines
\* 69-71, the template is read and the contact links are formatted;
\* format_contact_links is given two arguments, its linkedin stays None
GenCall(data, job_description, optimize_content) ==
    [IdleGen EXCEPT !.pc = "summary", !.data = data,
                    !.job_description = job_description,
                    !.optimize_content = optimize_content,
                    !.additional_links =
                        format_contact_links(data.github, data.portfolio, None)]

\* generate_latex is called
GenStart ==
    /\ gen.pc = "idle"
    /\ \E data \in GenDatas, jd \in GenJobDescriptions, oc \in BOOLEAN :
         gen' = GenCall(data, jd, oc)
    /\ UNCHANGED <<loopVars, evalVars, qcVars, fmt, app, sc, ui, expVars>>

\* the project the loop of line 103 is at: the one after those formatted
CurrentProject(g) == g.data.projects[Len(g.projects) + 1]

\* what generate_latex makes of a section's text: lines 79, 86 and 110-115
\* (the fragment of the project the loop is at is appended to `projects`)
GenStore(g, at, text) ==
    CASE at = "summary" -> [g EXCEPT !.summary = escape_latex(text)]
      [] at = "skills" -> [g EXCEPT !.skills = format_skills(text)]
      [] at = "projects" ->
            [g EXCEPT !.projects =
                   Append(g.projects,
                          format_project(CurrentProject(g).name,
                                         CurrentProject(g).technologies,
                                         CurrentProject(g).dates, text))]

\* lines 116-118: the section made of the fragments of all projects
ProjectsSection(projects) ==
       <<"\n\\section{Projects}\n\\resumeSubHeadingListStart\n">>
    \o Join(<<NL>>, projects)
    \o <<"\n\\resumeSubHeadingListEnd">>

\* one refined section of generate_latex: the text is refined or taken as it
\* is, and then put into the section's local
GenSection(at, text, content_type, next) ==
    /\ gen.pc = at
    /\ LET r == GenRefine(gen, text, content_type)
       IN CASE r.outcome = "plain" ->
                 /\ gen' = [GenStore(gen, at, r.value) EXCEPT !.pc = next]
                 /\ UNCHANGED loopVars
            [] r.outcome = "raise" ->
                 /\ gen' = [gen EXCEPT !.pc = "raised", !.error = r.error, !.raised_at = at]
                 /\ UNCHANGED loopVars
            [] r.outcome = "call" ->
                 /\ gen' = [gen EXCEPT !.pc = "refining", !.raised_at = at]
                 /\ Start(1, r.bound.content, r.bound.content_type, r.bound.job_description)
    /\ UNCHANGED <<evalVars, qcVars, fmt, app, sc, ui, expVars>>

\* lines 74-79
GenSummary ==
    /\ gen.pc = "summary"
    /\ GenSection("summary", gen.data.summary, "summary", "skills")

\* lines 81-86
GenSkills ==
    /\ gen.pc = "skills"
    /\ GenSection("skills", gen.data.skills, "skills", "experience")

\* lines 91-94: exp['company'], exp['role'], exp['dates'] and exp['location']
\* can be read
HasKeys(exp) ==
    exp.company # NoKey /\ exp.role # NoKey /\ exp.dates # NoKey /\ exp.location # NoKey

\* lines 88-97: every record has the four keys
GenExperience ==
    /\ gen.pc = "experience"
    /\ \A k \in 1..Len(gen.data.experience) : HasKeys(gen.data.experience[k])
    /\ gen' = [gen EXCEPT !.experiences = FormatExperiences(gen.data.experience),
                          !.pc = "projects"]
    /\ UNCHANGED <<loopVars, evalVars, qcVars, fmt, app, sc, ui, expVars>>

\* lines 88-97: a record lacks one of the four keys, and reading it raises
\* KeyError after the records before it were formatted
GenExperienceRaises ==
    /\ gen.pc = "experience"
    /\ \E k \in 1..Len(gen.data.experience) :
         /\ ~HasKeys(gen.data.experience[k])
         /\ \A j \in 1..(k - 1) : HasKeys(gen.data.experience[j])
         /\ gen' = [gen EXCEPT
                      !.experiences = FormatExperiences(SubSeq(gen.data.experience, 1, k - 1)),
                      !.pc = "raised", !.error = "KeyError",
                      !.raised_at = "experience"]
    /\ UNCHANGED <<loopVars, evalVars, qcVars, fmt, app, sc, ui, expVars>>

\* lines 103-115: one pass of the loop over the projects of the request
GenProjects ==
    /\ gen.pc = "projects"
    /\ Len(gen.projects) < Len(gen.data.projects)
    /\ GenSection("projects", CurrentProject(gen).description, "projects", "projects")

\* lines 116-118: the loop is over, the fragments are joined
GenProjectsSection ==
    /\ gen.pc = "projects"
    /\ gen.data.projects # <<>>
    /\ Len(gen.projects) = Len(gen.data.projects)
    /\ gen' = [gen EXCEPT !.projects_section = ProjectsSection(gen.projects),
                          !.pc = "education"]
    /\ UNCHANGED <<loopVars, evalVars, qcVars, fmt, app, sc, ui, expVars>>

\* lines 100-101, for a request without projects
GenNoProjects ==
    /\ gen.pc = "projects"
    /\ gen.data.projects = <<>>
    /\ gen' = [gen EXCEPT !.projects_section = <<>>, !.pc = "education"]
    /\ UNCHANGED <<loopVars, evalVars, qcVars, fmt, app, sc, ui, expVars>>

\* lines 120-129
GenEducations ==
    /\ gen.pc = "education"
    /\ gen' = [gen EXCEPT !.education = FormatEducations(gen.data.education),
                          !.pc = "certifications"]
    /\ UNCHANGED <<loopVars, evalVars, qcVars, fmt, app, sc, ui, expVars>>

\* lines 131-142: certifications, publications and the LinkedIn address
GenOptionalSections ==
    /\ gen.pc = "certifications"
    /\ gen' = [gen EXCEPT
                 !.certifications_section = format_certifications(gen.data.certifications),
                 !.publications_section =
                     format_publications(EscapeEach(gen.data.publications)),
                 !.linkedin_url = LinkedinUrl(gen.data.linkedin),
                 !.pc = "assemble"]
    /\ UNCHANGED <<loopVars, evalVars, qcVars, fmt, app, sc, ui, expVars>>

\* lines 145-166 without the quality check: the template's slots are filled,
\* and the document is returned when no quality check is asked for
GenAssemble ==
    /\ gen.pc = "assemble"
    /\ gen' = [gen EXCEPT
                 !.resume = Document(gen),
                 !.pc = IF RunsQualityCheck(gen.optimize_content)
                        THEN "quality" ELSE "returned"]
    /\ UNCHANGED <<loopVars, evalVars, qcVars, fmt, app, sc, ui, expVars>>

\* line 164: check_resume is handed the document, the service answers, and
\* the answer is parsed (or the parsing raises)
GenQualityReturns ==
    /\ gen.pc = "quality"
    /\ \E response \in GenQualityResponses :
         LET q == check_resume(response)
             g == [gen EXCEPT !.quality_calls = Append(gen.quality_calls, gen.resume)]
         IN gen' = IF q.outcome = "returned"
                   THEN [g EXCEPT !.quality_result = q, !.pc = "returned"]
                   ELSE [g EXCEPT !.pc = "raised", !.error = q.error,
                                  !.raised_at = "quality"]
    /\ UNCHANGED <<loopVars, evalVars, qcVars, fmt, app, sc, ui, expVars>>

\* line 164: the service fails under check_resume
GenQualityRaises ==
    /\ gen.pc = "quality"
    /\ gen' = [gen EXCEPT !.quality_calls = Append(gen.quality_calls, gen.resume),
                          !.pc = "raised", !.error = "GenerationUnavailable",
                          !.raised_at = "quality"]
    /\ UNCHANGED <<loopVars, evalVars, qcVars, fmt, app, sc, ui, expVars>>

GenSteps ==
    \/ GenSummary \/ GenSkills \/ GenExperience
    \/ GenProjects \/ GenProjectsSection \/ GenNoProjects
    \/ GenEducations \/ GenOptionalSections \/ GenAssemble
    \/ GenQualityReturns \/ GenQualityRaises

\* main() hands generate_latex records that collect_experience built, which
\* have every key, so the KeyError is a step of a direct call only
NextGenerate == GenStart \/ GenSteps \/ GenExperienceRaises

SpecGenerate == InitGenerate /\ [][NextGenerate]_vars

(***************************************************************************)
(* ResumeGenerator.save_and_compile: the document is written to the .tex   *)
(* file, and pdflatex is run on it.                                        *)
(***************************************************************************)
\* line 207: the message of a failed compilation, for the compiler's output
ErrorMessageWithoutLog(stdout, stderr) == <<"Error compiling LaTeX. See log for details:\n\n">>

ErrorMessage(stdout, stderr) ==
    <<"Error compiling LaTeX. See log for details:\n\n">> \o stdout \o stderr

\* lines 196-200: the result of a compilation that succeeded
CompiledResult(base_filepath) ==
    [success |-> TRUE, pdf_path |-> base_filepath \o <<".pdf">>,
     error_message |-> None]

\* lines 201-208: the result of a compilation that failed
FailedResult(stdout, stderr) ==
    [success |-> FALSE, pdf_path |-> None, error_message |-> ErrorMessage(stdout, stderr)]

MaxPartialWrite == 1   \* chunks that reach the disk before a write fails, at most

\* open(tex_file, 'w') and f.write that fail: the file is as it was when it
\* cannot be opened; once opened it is emptied, and holds what was written
\* of `content` before the failure
WriteFailures(content, disk) ==
    {disk} \cup {SubSeq(content, 1, k) :
                    k \in 0..(IF Len(content) - 1 < MaxPartialWrite
                              THEN Len(content) - 1 ELSE MaxPartialWrite)}

ScDocuments ==
    { <<"\\documentclass{article}">>,
      <<"\\documentclass{article}", NL, "R", "\\", "&", "D">>,
      <<"\\documentclass{article}", NL, "\\", "foo">>,
      <<"plain text">>,
      <<>> }

\* what pdflatex may print on its two streams, as <<stdout, stderr>>
ScOutputs ==
    { <<<<>>, <<>>>>,
      <<<<"! Undefined control sequence.", NL>>, <<"l.3 ", "\\", "foo", NL>>>>,
      <<<<"No pages of output.", NL>>, <<>>>>,
      <<<<>>, <<"! Undefined control sequence.", NL>>>> }

InitCompile ==
    /\ max_rounds = DefaultMaxRounds
    /\ opt = [r \in Runs |-> IdleFrame]
    /\ calls = [r \in Runs |-> <<>>]
    /\ InitEval
    /\ InitExp
    /\ InitGen
    /\ InitQc
    /\ InitFmt
    /\ InitApp
    /\ InitSc
    /\ InitUi

\* save_and_compile(latex_content, base_filepath) is called; the .tex file
\* may be there already (main() writes it before the call), and so may the
\* .pdf file
ScCall ==
    /\ sc.pc = "idle"
    /\ \E latex_content \in ScDocuments, disk \in {None} \cup ScDocuments,
          pdf \in BOOLEAN :
         sc' = [IdleSc EXCEPT !.pc = "write",
                              !.base_filepath = <<"output/resume/resume">>,
                              !.latex_content = latex_content,
                              !.disk = disk, !.pdf = pdf]
    /\ UNCHANGED <<loopVars, evalVars, expVars, gen, qcVars, fmt, app, ui>>

\* lines 184-185: the document is written
ScWrite ==
    /\ sc.pc = "write"
    /\ sc' = [sc EXCEPT !.disk = sc.latex_content, !.pc = "compile"]
    /\ UNCHANGED <<loopVars, evalVars, expVars, gen, qcVars, fmt, app, ui>>

\* lines 184-185: the file cannot be opened for writing, or is opened, and
\* so emptied, and the writing fails
ScWriteRaises ==
    /\ sc.pc = "write"
    /\ \E disk \in WriteFailures(sc.latex_content, sc.disk) :
         sc' = [sc EXCEPT !.disk = disk, !.pc = "raised", !.error = "OSError"]
    /\ UNCHANGED <<loopVars, evalVars, expVars, gen, qcVars, fmt, app, ui>>

\* lines 188-200: pdflatex runs on the file and exits with 0, having written
\* the .pdf file or not (a document without pages)
ScCompiles ==
    /\ sc.pc = "compile"
    /\ \E pdf_written \in BOOLEAN :
         sc' = [sc EXCEPT !.compiler = "succeeded", !.compiled_from = sc.disk,
                          !.pdf = sc.pdf \/ pdf_written,
                          !.result = CompiledResult(sc.base_filepath),
                          !.pc = "returned"]
    /\ UNCHANGED <<loopVars, evalVars, expVars, gen, qcVars, fmt, app, ui>>

\* lines 188-208: pdflatex runs on the file and exits with another status
\* (CalledProcessError), having written the .pdf file or not (in nonstopmode
\* it goes on after an error)
ScCompileFails ==
    /\ sc.pc = "compile"
    /\ \E output \in ScOutputs, pdf_written \in BOOLEAN :
         sc' = [sc EXCEPT !.compiler = "failed", !.compiled_from = sc.disk,
                          !.pdf = sc.pdf \/ pdf_written,
                          !.log = output[1] \o output[2],
                          !.result = FailedResult(output[1], output[2]),
                          !.pc = "returned"]
    /\ UNCHANGED <<loopVars, evalVars, expVars, gen, qcVars, fmt, app, ui>>

\* lines 188-195: pdflatex cannot be started (FileNotFoundError), which the
\* except of line 201 does not catch
ScCompilerMissing ==
    /\ sc.pc = "compile"
    /\ sc' = [sc EXCEPT !.compiler = "not started", !.pc = "raised",
                        !.error = "FileNotFoundError"]
    /\ UNCHANGED <<loopVars, evalVars, expVars, gen, qcVars, fmt, app, ui>>

\* save_and_compile from its first line on
ScSteps ==
    \/ ScWrite \/ ScWriteRaises
    \/ ScCompiles \/ ScCompileFails \/ ScCompilerMissing

NextCompile == ScCall \/ ScSteps

SpecCompile == InitCompile /\ [][NextCompile]_vars

(***************************************************************************)
(* main() of app.py: one run of the script.  The form is collected, and    *)
(* when a button was pressed and the required fields are filled, the       *)
(* document is generated, compiled and shown.                              *)
(***************************************************************************)
MaxExperienceRows == 3  \* experience entries on the form, at most

\* collect_experience, line 286: whether an entry of the form is kept
ExperienceKept(company, role) == Truthy(company) /\ Truthy(role)

\* collect_experience, lines 267-285: the projects of an entry with a title
RECURSIVE CollectExperienceProjects(_)
CollectExperienceProjects(rows) ==
    IF rows = <<>> THEN <<>>
    ELSE (IF Truthy(rows[1].title)
          THEN <<[title |-> rows[1].title, description |-> rows[1].description]>>
          ELSE <<>>)
         \o CollectExperienceProjects(Tail(rows))

\* collect_experience: the entries of the form that are kept, in order
RECURSIVE collect_experience(_)
collect_experience(rows) ==
    IF rows = <<>> THEN <<>>
    ELSE (IF ExperienceKept(rows[1].company, rows[1].role)
          THEN <<[company |-> rows[1].company, role |-> rows[1].role,
                  dates |-> rows[1].dates, location |-> rows[1].location,
                  projects |-> CollectExperienceProjects(rows[1].projects)]>>
          ELSE <<>>)
         \o collect_experience(Tail(rows))

\* collect_projects: the projects with a name
RECURSIVE collect_projects(_)
collect_projects(rows) ==
    IF rows = <<>> THEN <<>>
    ELSE (IF Truthy(rows[1].name) THEN <<rows[1]>> ELSE <<>>)
         \o collect_projects(Tail(rows))

\* collect_education: the entries with a school and a degree; an empty
\* location or GPA becomes None
RECURSIVE collect_education(_)
collect_education(rows) ==
    IF rows = <<>> THEN <<>>
    ELSE (IF Truthy(rows[1].school) /\ Truthy(rows[1].degree)
          THEN <<[school |-> rows[1].school, degree |-> rows[1].degree,
                  dates |-> rows[1].dates,
                  location |-> IF Truthy(rows[1].location) THEN rows[1].location
                               ELSE None,
                  gpa |-> IF Truthy(rows[1].gpa) THEN rows[1].gpa ELSE None]>>
          ELSE <<>>)
         \o collect_education(Tail(rows))

\* collect_certifications: the entries with a name
RECURSIVE collect_certifications(_)
collect_certifications(rows) ==
    IF rows = <<>> THEN <<>>
    ELSE (IF Truthy(rows[1].name) THEN <<rows[1]>> ELSE <<>>)
         \o collect_certifications(Tail(rows))

\* collect_publications: the lines of the text area that are not blank
collect_publications(text) ==
    LET NotBlank(line) == Strip(line) # <<>> IN SelectSeq(SplitLines(text), NotBlank)

\* lines 63-85: the data main() combines from the form
CollectData(form) ==
    [name |-> form.name, email |-> form.email, phone |-> collect_phone(form.phone),
     location |-> form.location, linkedin |-> form.linkedin,
     github |-> form.github, portfolio |-> form.portfolio,
     summary |-> form.summary, skills |-> form.skills,
     experience |-> collect_experience(form.experience),
     projects |-> collect_projects(form.projects),
     education |-> collect_education(form.education),
     certifications |-> collect_certifications(form.certifications),
     publications |-> collect_publications(form.publications),
     target_info |-> form.target_info]

\* validate_required_fields
validate_required_fields(data) ==
    /\ Truthy(data.name) /\ Truthy(data.email) /\ Truthy(data.phone)
    /\ Truthy(data.location) /\ Truthy(data.linkedin)
    /\ Truthy(data.summary) /\ Truthy(data.skills)
    /\ data.experience # <<>>
    /\ data.education # <<>>

Buttons == {"basic_no_llm", "basic_llm", "optimized"}

\* line 114: optimize_content = generate_optimized
OptimizeContent(button) == button = "optimized"

\* line 115: use_llm_feedback = generate_basic_llm or generate_optimized
UseLlmFeedbackAlways(button) == TRUE

UseLlmFeedback(button) == button \in {"basic_llm", "optimized"}

\* display_quality_check_results: what it shows for a verdict
DisplayQuality(q) ==
    (IF q.is_approved /\ q.estimated_pages <= 2 * PageScale
     THEN <<"success: quality check passed">>
     ELSE (IF ~q.is_approved THEN <<"warning: quality issues">> ELSE <<>>)
          \o (IF q.estimated_pages > 2 * PageScale THEN <<"error: too long">> ELSE <<>>))
    \o <<"feedback">>
    \o (IF q.suggested_changes # <<>> THEN <<"suggested improvements">> ELSE <<>>)

\* the entries a user may leave on the form's experience section
AppExperienceRows ==
    { GenExperienceA, GenExperienceB,
      [company |-> <<>>, role |-> <<"Ghost">>, dates |-> <<"2019">>,
       location |-> <<>>, projects |-> <<>>],
      [company |-> <<"Nameless">>, role |-> <<>>, dates |-> <<>>,
       location |-> <<>>,
       projects |-> <<[title |-> <<>>, description |-> <<"untitled">>]>>] }

AppExtras ==
    { [linkedin |-> <<"https", ":", "/", "/", "linkedin.com", "/", "x">>, github |-> <<>>,
       portfolio |-> <<>>, certifications |-> <<>>, publications |-> <<>>,
       projects |-> <<>>],
      [linkedin |-> <<>>, github |-> <<"github.com", "/", "x">>,
       portfolio |-> <<>>, certifications |-> <<>>, publications |-> <<>>,
       projects |-> <<>>],
      [linkedin |-> <<"linkedin.com", "/", "x">>, github |-> <<"github.com", "/", "x">>,
       portfolio |-> <<"x.dev">>,
       certifications |-> <<[name |-> <<>>, issued |-> <<"2019">>, expires |-> <<>>],
                            [name |-> <<"AWS">>, issued |-> <<"2020">>,
                             expires |-> <<"2023">>]>>,
       publications |-> <<"Paper", " ", "A", NL, " ", NL, "B", " ", "&", " ", "C">>,
       projects |-> <<GenProject>>] }

AppPhone == <<"(", "5", "5", "5", ")", " ", "0", "1", "0", "-", "0", "1", "2", "3">>

\* eleven digits
AppLongPhone == <<"1", "5", "5", "5", "0", "1", "0", "0", "1", "2", "3">>

\* what a user types into the phone widget: ten digits, too few, too many,
\* or the field cleared
AppPhones == {AppPhone, <<"5", "5", "5">>, AppLongPhone, <<>>}

\* the required fields that are single widgets without a callback, all filled
AppFilled ==
    [name |-> <<"Ada">>, email |-> <<"ada@x.org">>,
     location |-> <<"Boston">>, summary |-> <<"R", "&", "D", " ", "lead">>,
     skills |-> <<"R", "&", "D", ":", " ", "testing">>,
     education |-> <<[school |-> <<"MIT">>, degree |-> <<"BS">>, dates |-> <<"2010">>,
                      location |-> <<>>, gpa |-> <<"3", ".", "9">>]>>]

\* all filled, or one of them left empty, or an education entry without a
\* degree
AppRequired ==
    { AppFilled,
      [AppFilled EXCEPT !.name = <<>>],
      [AppFilled EXCEPT !.email = <<>>],
      [AppFilled EXCEPT !.location = <<>>],
      [AppFilled EXCEPT !.summary = <<>>],
      [AppFilled EXCEPT !.skills = <<>>],
      [AppFilled EXCEPT !.education = <<>>],
      [AppFilled EXCEPT !.education[1].degree = <<>>] }

\* a folder of saved resumes, the last one used being the first of them,
\* which holds a phone number
SavedUi ==
    [IdleUi EXCEPT !.files = [n \in ResumeNames |->
                                 IF n = CvName THEN FormData("{Ada}", SavedPhone)
                                 ELSE FormData("{Bob}", <<>>)],
                   !.last_used = CvName]

\* the sessions main() runs in: a fresh one, one where a phone number has
\* been typed, and one on a folder of saved resumes, with a phone number
\* typed or not
MainSessions ==
    {IdleUi} \cup {on_phone_change(IdleUi, phone) : phone \in AppPhones}
    \cup {SavedUi, on_phone_change(SavedUi, AppPhone)}

\* the experience sections filled in a session: every one where a phone
\* number of ten digits was typed and no resume is saved, a few elsewhere
AppExperience(u) ==
    IF SavedForms(u) = {} /\ u.phone # None /\ u.phone_error = <<>>
    THEN UNION {[1..k -> AppExperienceRows] : k \in 0..MaxExperienceRows}
    ELSE {<<>>, <<GenExperienceA>>, <<GenExperienceA, GenExperienceB>>}

\* what the widgets of the form may return in session u, with
\* `selected_form` in the sidebar
AppForms(u, selected_form) ==
    { [name |-> required.name, email |-> required.email,
       phone |-> PhoneWidget(u, LoadedData(u, selected_form)),
       location |-> required.location, linkedin |-> extras.linkedin,
       github |-> extras.github, portfolio |-> extras.portfolio,
       summary |-> required.summary, skills |-> required.skills,
       experience |-> ex, projects |-> extras.projects,
       education |-> required.education,
       certifications |-> extras.certifications,
       publications |-> extras.publications,
       target_info |-> ti] :
        required \in AppRequired,
        ex \in AppExperience(u),
        extras \in AppExtras,
        ti \in {<<>>, <<"ML engineer">>} }

\* what collect_personal_info shows in the main area: display_current_resume_name
\* (ui.py lines 156-161; the name itself is ui.current_resume_name) and the
\* phone error (lines 185-187)
MainShown(u) ==
    <<IF Truthy(u.current_resume_name) THEN "info: current resume"
      ELSE "info: new resume (unsaved)">>
    \o (IF u.phone_error # <<>>
        THEN <<"error: phone number must be exactly 10 digits">> ELSE <<>>)

\* lines 124-136: the output folder is named after the resume and the second
\* of the run, and is made with exist_ok=True: a run of the same second and
\* name found it empty or not there, or left its .tex file in it, or its
\* .tex and .pdf files
OlderDocument == <<"older document">>

MainFolders ==
    { IdleSc,
      [IdleSc EXCEPT !.disk = OlderDocument],
      [IdleSc EXCEPT !.disk = OlderDocument, !.pdf = TRUE] }

InitMain ==
    /\ max_rounds = DefaultMaxRounds
    /\ opt = [r \in Runs |-> IdleFrame]
    /\ calls = [r \in Runs |-> <<>>]
    /\ InitEval
    /\ InitExp
    /\ InitGen
    /\ InitQc
    /\ InitFmt
    /\ InitApp
    /\ sc \in MainFolders
    /\ ui \in MainSessions

\* lines 37-39: no API key is set
MainNoKey ==
    /\ app.pc = "idle"
    /\ app' = [app EXCEPT !.pc = "done",
                          !.shown = <<"error: set your OpenAI API key">>]
    /\ UNCHANGED <<loopVars, evalVars, expVars, gen, qcVars, fmt, sc, ui>>

\* lines 41-105: the resumes are loaded, the form is shown and collected, the
\* save options are shown, and no button was pressed
MainRender ==
    /\ app.pc = "idle"
    /\ \E selected_form \in SavedForms(ui) \cup {<<>>} :
         /\ ui' = MainUi(ui, selected_form)
         /\ \E form \in AppForms(ui, selected_form) :
              app' = [app EXCEPT !.pc = "done", !.has_key = TRUE, !.form = form,
                                 !.data = CollectData(form),
                                 !.shown = MainShown(ui')]
    /\ UNCHANGED <<loopVars, evalVars, expVars, gen, qcVars, fmt, sc>>

\* ui.py lines 31-39, then lines 41-105: a phone number was typed, so the
\* callback runs and then main(), with no button pressed
MainPhoneChange ==
    /\ app.pc = "idle"
    /\ \E phone \in AppPhones, selected_form \in SavedForms(ui) \cup {<<>>} :
         /\ ui' = MainUi(on_phone_change(ui, phone), selected_form)
         /\ \E form \in AppForms(on_phone_change(ui, phone), selected_form) :
              app' = [app EXCEPT !.pc = "done", !.has_key = TRUE, !.form = form,
                                 !.data = CollectData(form),
                                 !.shown = MainShown(ui')]
    /\ UNCHANGED <<loopVars, evalVars, expVars, gen, qcVars, fmt, sc>>

\* lines 41-110: a button was pressed and a required field is empty
MainInvalid ==
    /\ app.pc = "idle"
    /\ \E selected_form \in SavedForms(ui) \cup {<<>>} :
         /\ ui' = MainUi(ui, selected_form)
         /\ \E form \in AppForms(ui, selected_form), button \in Buttons :
              /\ ~validate_required_fields(CollectData(form))
              /\ app' = [app EXCEPT !.pc = "done", !.has_key = TRUE,
                                    !.button = button,
                                    !.form = form, !.data = CollectData(form),
                                    !.shown = MainShown(ui')
                                       \o <<"error: fill in all required fields">>]
    /\ UNCHANGED <<loopVars, evalVars, expVars, gen, qcVars, fmt, sc>>

\* lines 41-120: a button was pressed, the required fields are filled, and
\* generate_latex is called
MainGenerate ==
    /\ app.pc = "idle"
    /\ gen.pc = "idle"
    /\ \E selected_form \in SavedForms(ui) \cup {<<>>} :
         /\ ui' = MainUi(ui, selected_form)
         /\ \E form \in AppForms(ui, selected_form), button \in Buttons :
              LET data == CollectData(form)
              IN /\ validate_required_fields(data)
                 /\ app' = [app EXCEPT !.pc = "generating", !.has_key = TRUE,
                                       !.button = button, !.form = form,
                                       !.data = data, !.shown = MainShown(ui')]
                 /\ gen' = GenCall(data,
                                   IF OptimizeContent(button) THEN data.target_info
                                   ELSE None,
                                   UseLlmFeedback(button))
    /\ UNCHANGED <<loopVars, evalVars, expVars, qcVars, fmt, sc>>

Letters ==
    {"a", "b", "c", "d", "e", "f", "g", "h", "i", "j", "k", "l", "m",
     "n", "o", "p", "q", "r", "s", "t", "u", "v", "w", "x", "y", "z",
     "A", "B", "C", "D", "E", "F", "G", "H", "I", "J", "K", "L", "M",
     "N", "O", "P", "Q", "R", "S", "T", "U", "V", "W", "X", "Y", "Z"}

\* lines 126-134: the base name of the written files, from the current resume
\* name (one character per element), of which the characters are kept that
\* are alphanumeric, - or _
FileBase(resume_name) ==
    LET Kept(c) == c \in Letters \cup Digits \cup {"-", "_"}
        safe_filename == IF Truthy(resume_name) THEN SelectSeq(resume_name, Kept)
                         ELSE <<>>
    IN IF safe_filename # <<>> THEN safe_filename
       ELSE <<"r", "e", "s", "u", "m", "e">>

\* lines 126-137: output/<name>_<timestamp>/<name>
BaseFilepath(resume_name) ==
    <<"output", "/">> \o FileBase(resume_name) \o <<"_", "<timestamp>", "/">>
    \o FileBase(resume_name)

\* the document as text: resume_template.tex is not among the sources, so
\* the text is written as the values of the template's slots, in the order
\* of the call of line 145, each after the name of its slot
DocumentText(resume) ==
    <<"{name}">> \o resume.name \o <<"{email}">> \o resume.email
    \o <<"{phone}">> \o resume.phone \o <<"{location}">> \o resume.location
    \o <<"{linkedin}">> \o resume.linkedin
    \o <<"{additional_links}">> \o resume.additional_links
    \o <<"{summary}">> \o resume.summary \o <<"{skills}">> \o resume.skills
    \o <<"{experience}">> \o resume.experience
    \o <<"{projects}">> \o resume.projects
    \o <<"{education}">> \o resume.education
    \o <<"{certifications_section}">> \o resume.certifications_section
    \o <<"{publications_section}">> \o resume.publications_section

\* lines 122-140 and 171-172: generate_latex returned, and the folder
\* 'output' cannot be made (file_base is not yet assigned), or the output
\* folder cannot be made or the .tex file not be opened (the folder is as it
\* was), or the writing fails after the file was opened, and so emptied
MainOutputRaises ==
    /\ app.pc = "generating"
    /\ gen.pc = "returned"
    /\ \E disk \in WriteFailures(DocumentText(gen.resume), sc.disk),
          file_base \in {None, FileBase(ui.current_resume_name)} :
         /\ file_base = None => disk = sc.disk
         /\ app' = [app EXCEPT !.pc = "done",
                               !.file_base = file_base,
                               !.shown = @ \o <<"error: generating resume">>]
         /\ sc' = [sc EXCEPT !.disk = disk]
    /\ UNCHANGED <<loopVars, evalVars, expVars, gen, qcVars, fmt, ui>>

\* lines 122-144: generate_latex returned; the folder is made or is there,
\* the document is written to the .tex file in place of what the file held,
\* and save_and_compile is called; nothing is removed from the folder, so a
\* .pdf file that was there still is
MainWrite ==
    /\ app.pc = "generating"
    /\ gen.pc = "returned"
    /\ app' = [app EXCEPT !.pc = "compiling",
                          !.file_base = FileBase(ui.current_resume_name)]
    /\ sc' = [sc EXCEPT !.pc = "write",
                        !.base_filepath = BaseFilepath(ui.current_resume_name),
                        !.latex_content = DocumentText(gen.resume),
                        !.disk = DocumentText(gen.resume)]
    /\ UNCHANGED <<loopVars, evalVars, expVars, gen, qcVars, fmt, ui>>

\* lines 145-147: save_and_compile raised
MainCompileRaised ==
    /\ app.pc = "compiling"
    /\ sc.pc = "raised"
    /\ app' = [app EXCEPT !.pc = "done",
                          !.shown = @ \o <<"error: PDF compilation">>]
    /\ UNCHANGED <<loopVars, evalVars, expVars, gen, qcVars, fmt, sc, ui>>

\* lines 149-169: save_and_compile returned; the downloads and the quality
\* verdict are shown
MainCompiled ==
    /\ app.pc = "compiling"
    /\ sc.pc = "returned"
    /\ app' = [app EXCEPT
                 !.pc = "done",
                 !.shown = @ \o <<"success: resume generated", "download: tex">>
                      \o (IF sc.result.success /\ Truthy(sc.result.pdf_path) /\ sc.pdf
                          THEN <<"download: pdf">>
                          ELSE <<"error: generating PDF">>)
                      \o (IF UseLlmFeedback(app.button)
                          THEN DisplayQuality(gen.quality_result) ELSE <<>>)]
    /\ UNCHANGED <<loopVars, evalVars, expVars, gen, qcVars, fmt, sc, ui>>

\* lines 171-172: generate_latex raised
MainGenerateFailed ==
    /\ app.pc = "generating"
    /\ gen.pc = "raised"
    /\ app' = [app EXCEPT !.pc = "done",
                          !.shown = @ \o <<"error: generating resume">>]
    /\ UNCHANGED <<loopVars, evalVars, expVars, gen, qcVars, fmt, sc, ui>>

NextMain ==
    \/ MainNoKey \/ MainRender \/ MainPhoneChange \/ MainInvalid \/ MainGenerate
    \/ GenSteps
    \/ MainOutputRaises \/ MainWrite
    \/ ScSteps
    \/ MainCompileRaised \/ MainCompiled
    \/ MainGenerateFailed

SpecMain == InitMain /\ [][NextMain]_vars

(***************************************************************************)
(* Reading the record of a call's agent calls.                             *)
(***************************************************************************)
PolisherCalls(r) ==
    LET IsPolisher(c) == c.agent = "polisher" IN SelectSeq(calls[r], IsPolisher)

CriticCalls(r) ==
    LET IsCritic(c) == c.agent = "critic" IN SelectSeq(calls[r], IsCritic)

LastPolisherCall(r) == PolisherCalls(r)[Len(PolisherCalls(r))]

\* the critic answered, and its verdict was not satisfied
UnsatisfiedVerdict(c) == c.agent = "critic" /\ c.response # Raised /\ ~c.is_satisfied

SatisfiedVerdict(c) == c.agent = "critic" /\ c.response # Raised /\ c.is_satisfied

AllUnsatisfied(r) ==
    \A i \in 1..Len(calls[r]) : calls[r][i].agent = "critic" => UnsatisfiedVerdict(calls[r][i])

(***************************************************************************)
(* C1.  For every max_rounds >= 1 and every sequence of critic verdicts,   *)
(* optimize_content terminates, and it never makes more than max_rounds    *)
(* polish_content calls.                                                   *)
(***************************************************************************)
C1_TerminatesWithinMaxRounds ==
    /\ [](\A r \in Runs : max_rounds >= 1 => Len(PolisherCalls(r)) <= max_rounds)
    /\ \A r \in Runs :
         (max_rounds >= 1 /\ opt[r].pc # "idle") ~> (opt[r].pc \in {"done", "raised"})

C1_Witness ==
    \E r \in Runs : /\ opt[r].pc = "done"
                    /\ max_rounds >= 2
                    /\ Len(PolisherCalls(r)) = max_rounds

(***************************************************************************)
(* C2.  If the critic is unsatisfied in every round, optimize_content      *)
(* ends exhausted after exactly max_rounds rounds: max_rounds polisher     *)
(* calls, max_rounds critic calls, and the last round's candidate is       *)
(* returned.                                                               *)
(***************************************************************************)
C2_AlwaysUnsatisfiedExhausts ==
    \A r \in Runs :
        (opt[r].pc = "done" /\ AllUnsatisfied(r)) =>
            /\ Len(PolisherCalls(r)) = max_rounds
            /\ Len(CriticCalls(r)) = max_rounds
            /\ opt[r].current_round = max_rounds
            /\ ~opt[r].is_satisfied
            /\ max_rounds >= 1 =>
                 /\ LastPolisherCall(r).round = max_rounds - 1
                 /\ opt[r].result = LastPolisherCall(r).response

C2_Witness ==
    \E r \in Runs : /\ opt[r].pc = "done"
                    /\ AllUnsatisfied(r)
                    /\ max_rounds >= 2
                    /\ Len(CriticCalls(r)) = max_rounds

(***************************************************************************)
(* C3.  A satisfied verdict ends the call: the satisfied critic call is    *)
(* the last agent call ever made, the call has returned, and it returned   *)
(* the candidate the polisher produced in that same round.                 *)
(***************************************************************************)
C3_StopsWhenSatisfied ==
    \A r \in Runs : \A i \in 1..Len(calls[r]) :
        SatisfiedVerdict(calls[r][i]) =>
            /\ i = Len(calls[r])
            /\ opt[r].pc = "done"
            /\ i >= 2
            /\ calls[r][i - 1].agent = "polisher"
            /\ calls[r][i - 1].round = calls[r][i].round
            /\ opt[r].result = calls[r][i - 1].response

C3_Witness ==
    \E r \in Runs : /\ Len(calls[r]) = 4
                    /\ SatisfiedVerdict(calls[r][4])
                    /\ max_rounds >= 3
                    /\ opt[r].result = calls[r][3].response
                    /\ calls[r][3].response # calls[r][1].response

(***************************************************************************)
(* C4.  As claimed: whatever max_rounds the ContentOptimizer was built     *)
(* with, the value returned was produced by at least one full polisher-    *)
(* then-critic pass, so the input is never returned unrefined.             *)
(***************************************************************************)
C4_Original ==
    \A r \in Runs :
        opt[r].pc = "done" =>
            /\ Len(PolisherCalls(r)) >= 1
            /\ Len(CriticCalls(r)) >= 1
            /\ opt[r].result = LastPolisherCall(r).response

(***************************************************************************)
(* C4, amended.  For every max_rounds >= 1 the value returned was          *)
(* produced by at least one full polisher-then-critic pass.                *)
(***************************************************************************)
C4_ReturnsRefinedWhenMaxRoundsPositive ==
    \A r \in Runs :
        (opt[r].pc = "done" /\ max_rounds >= 1) =>
            /\ Len(PolisherCalls(r)) >= 1
            /\ Len(CriticCalls(r)) >= 1
            /\ opt[r].result = LastPolisherCall(r).response

C4_Witness ==
    \E r \in Runs : /\ opt[r].pc = "done"
                    /\ max_rounds >= 1
                    /\ opt[r].content # <<>>
                    /\ opt[r].result # opt[r].content
                    /\ opt[r].result = LastPolisherCall(r).response

(***************************************************************************)
(* C5.  As claimed: for max_rounds >= 1 and non-empty input the returned   *)
(* content is non-empty, whatever the polisher and the critic answered.    *)
(***************************************************************************)
C5_Original ==
    \A r \in Runs :
        (opt[r].pc = "done" /\ max_rounds >= 1 /\ opt[r].content # <<>>) =>
            opt[r].result # <<>>

(***************************************************************************)
(* C6.  The polisher is given the original content in round 0 and, in      *)
(* round r > 0, the candidate it produced in round r-1; round 0 carries    *)
(* no feedback; the round counter starts at 0 and is the number of         *)
(* unsatisfied verdicts so far.                                            *)
(***************************************************************************)
C6_PolisherInputChain ==
    \A r \in Runs :
        opt[r].pc # "idle" =>
            LET P == PolisherCalls(r) IN
            /\ \A k \in 1..Len(P) :
                 /\ P[k].round = k - 1
                 /\ P[k].content = IF k = 1 THEN opt[r].content ELSE P[k - 1].response
            /\ Len(P) >= 1 => P[1].critic_feedback = None
            /\ opt[r].current_round =
                 Cardinality({i \in 1..Len(calls[r]) : UnsatisfiedVerdict(calls[r][i])})

C6_Witness ==
    \E r \in Runs : LET P == PolisherCalls(r) IN
        /\ Len(P) >= 3
        /\ P[1].content = opt[r].content
        /\ P[2].content = P[1].response
        /\ P[3].content = P[2].response
        /\ P[1].response # P[2].response
        /\ P[1].response # opt[r].content

(***************************************************************************)
(* C7.  Every polisher request after round 0 contains, verbatim, the       *)
(* feedback the critic returned in the round just before it.               *)
(***************************************************************************)
C7_FeedbackCarriedVerbatim ==
    \A r \in Runs : \A i \in 2..Len(calls[r]) :
        calls[r][i].agent = "polisher" =>
            /\ UnsatisfiedVerdict(calls[r][i - 1])
            /\ calls[r][i - 1].round + 1 = calls[r][i].round
            /\ calls[r][i].critic_feedback = calls[r][i - 1].response
            /\ IsSubText(calls[r][i - 1].response, calls[r][i].prompt)

C7_Witness ==
    \E r \in Runs :
        /\ Len(calls[r]) >= 5
        /\ calls[r][5].agent = "polisher"
        /\ calls[r][4].response # <<>>
        /\ calls[r][2].response # <<>>
        /\ calls[r][4].response # calls[r][2].response
        /\ IsSubText(calls[r][4].response, calls[r][5].prompt)
        /\ ~IsSubText(calls[r][2].response, calls[r][5].prompt)

(***************************************************************************)
(* The verdict tokens of a response: a token is a maximal run of chunks    *)
(* with no blank or newline in it, and it is a verdict token when it       *)
(* spells exactly SATISFIED or exactly NEEDS_IMPROVEMENT.                  *)
(***************************************************************************)
IsVerdictTokenAt(s, i) ==
    /\ s[i] \in {"SATISFIED", "NEEDS_IMPROVEMENT"}
    /\ i = 1 \/ IsSpace(s[i - 1])
    /\ i = Len(s) \/ IsSpace(s[i + 1])

VerdictPositions(s) == {i \in 1..Len(s) : IsVerdictTokenAt(s, i)}

FinalVerdictToken(s) ==
    IF VerdictPositions(s) = {} THEN "none"
    ELSE s[CHOOSE i \in VerdictPositions(s) : \A j \in VerdictPositions(s) : j <= i]

(***************************************************************************)
(* C8.  As claimed: evaluate_content returns satisfied = true exactly      *)
(* when the final verdict token of the response is SATISFIED (so false     *)
(* when it is NEEDS_IMPROVEMENT), whatever words or blank lines surround   *)
(* the token.                                                              *)
(***************************************************************************)
C8_Original ==
    ev_response # None =>
        (ev_result.is_satisfied <=> FinalVerdictToken(ev_response) = "SATISFIED")

(***************************************************************************)
(* C9.  As claimed: in generate_latex with optimization enabled and a      *)
(* target description given, a failure while a section is being refined    *)
(* never aborts the request: generate_latex does not raise there, it       *)
(* carries on with the unrefined content.                                  *)
(***************************************************************************)
C9_Original ==
    (gen.optimize_content /\ Truthy(gen.job_description) /\ gen.pc = "raised") =>
        gen.raised_at \notin {"summary", "skills", "projects"}

(***************************************************************************)
(* C10.  In run_experiment a section whose optimization raised keeps its   *)
(* original content, the batch is never aborted, the rows and sections     *)
(* after the failure are processed, and the results are saved.             *)
(***************************************************************************)
ExpProcessed(i, section) ==
    \/ section = "projects" /\ ~NotNa(df[i].projects)
    \/ ExpStored(exp_results, i, section) # None

C10_FailuresDoNotAbortBatch ==
    /\ exp_pc # "aborted"
    /\ \A e \in exp_errors :
         ExpStored(exp_results, e[1], e[2]) = ExpColumn(df[e[1]], e[2])
    /\ \A i \in 1..Len(df) : \A k \in 1..Len(ExpSections) :
         (i < exp_idx \/ exp_pc \in {"save", "finished"}) => ExpProcessed(i, ExpSections[k])
    /\ exp_pc = "finished" => exp_saved = exp_results
    /\ exp_pc # "finished" => ENABLED NextExperiment

C10_Witness ==
    /\ exp_pc = "finished"
    /\ Len(df) = 2
    /\ <<1, "summary">> \in exp_errors
    /\ <<2, "experience">> \in exp_errors
    /\ exp_saved[1].optimized_summary = df[1].summary
    /\ exp_saved[1].optimized_skills \in ExpRewriterTexts
    /\ exp_saved[2].optimized_work_experience = df[2].work_experience
    /\ exp_saved[2].optimized_projects \in ExpRewriterTexts

(***************************************************************************)
(* The fields of a quality response, as the prompt lays them out: the      *)
(* text of a field is what follows its name and colon on the first line    *)
(* that starts with them.                                                  *)
(***************************************************************************)
HasField(response, name) == LinesStarting(SplitLines(response), <<name, ":">>) # <<>>

FieldText(response, name) ==
    LET line == LinesStarting(SplitLines(response), <<name, ":">>)[1]
    IN SubSeq(line, 3, Len(line))

(***************************************************************************)
(* C11.  As claimed: check_resume never fails on a response that lacks     *)
(* some of the expected fields; for every response text it returns a       *)
(* QualityCheckResult.                                                     *)
(***************************************************************************)
C11_Original ==
    qc_result.outcome # "none" => qc_result.outcome = "returned"

(***************************************************************************)
(* C12.  As claimed: a value of the APPROVED field that only contains the  *)
(* letters YES inside another token, with no token YES of its own, gives   *)
(* approved = false (and so does the value NO).                            *)
(***************************************************************************)
C12_Original ==
    (qc_result.outcome = "returned" /\ qc_result.is_approved) =>
        \E i \in 1..Len(FieldText(qc_response, "APPROVED")) :
            FieldText(qc_response, "APPROVED")[i] = "YES"

(***************************************************************************)
(* C13.  As claimed: the estimated length is the first numeric token (N    *)
(* or N.N) of the text of the ESTIMATED_PAGES field, whatever text         *)
(* surrounds it, and 1.0 when that text holds no numeric token.            *)
(***************************************************************************)
C13_Original ==
    qc_result.outcome = "returned" =>
        LET token == ReSearchNumber(FieldText(qc_response, "ESTIMATED_PAGES"))
        IN qc_result.estimated_pages =
               IF token.found THEN Float(token) ELSE DefaultEstimatedPages * PageScale

(***************************************************************************)
(* The fixed escape sequence of a reserved character, and the text a       *)
(* single simultaneous pass makes: each character gives its own piece,     *)
(* whatever stands before or after it.                                     *)
(***************************************************************************)
FixedEscape(c) ==
    IF c \in {"&", "%", "$", "#", "_", "{", "}"} THEN <<"\\", c>>
    ELSE IF c = "~" THEN <<"\\", "textasciitilde", "{", "}">>
    ELSE IF c = "^" THEN <<"\\", "textasciicircum", "{", "}">>
    ELSE IF c = "\\" THEN <<"\\", "textbackslash", "{", "}">>
    ELSE <<c>>

RECURSIVE EscapedOnce(_)
EscapedOnce(text) ==
    IF text = <<>> THEN <<>>
    ELSE EscapedOnce(SubSeq(text, 1, Len(text) - 1)) \o FixedEscape(text[Len(text)])

\* how many chunks of s are c
Count(s, c) == Cardinality({i \in 1..Len(s) : s[i] = c})

(***************************************************************************)
(* C14.  escape_latex replaces each occurrence of the ten reserved         *)
(* characters by its fixed escape sequence in one simultaneous pass and    *)
(* leaves every other character unchanged; nothing a replacement brings    *)
(* in is escaped again: the result holds one backslash per reserved        *)
(* character of the input.                                                 *)
(***************************************************************************)
C14_EscapesInOnePass ==
    fmt.fn = "escape_latex" =>
        /\ fmt.result = EscapedOnce(fmt.arg)
        /\ Count(fmt.result, "\\") = Cardinality({i \in 1..Len(fmt.arg) : fmt.arg[i] \in Reserved})
        /\ Cardinality(Reserved) = 10

C14_Witness ==
    /\ fmt.fn = "escape_latex"
    /\ fmt.arg = <<"\\", "&", "R">>
    /\ fmt.result = <<"\\", "textbackslash", "{", "}", "\\", "&", "R">>

(***************************************************************************)
(* C15.  As claimed: in the document generate_latex returns, the summary   *)
(* has been escaped exactly once: each reserved character of the summary   *)
(* stands in the document as its one escaped form.                         *)
(***************************************************************************)
C15_Original ==
    gen.pc = "returned" => gen.resume.summary = EscapedOnce(gen.data.summary)

(***************************************************************************)
(* C16                                                                     *)
(***************************************************************************)
\* the entries of the form's experience section that have a company and a role
ValidExperienceRows(rows) ==
    LET IsValid(row) == row.company # <<>> /\ row.role # <<>> IN SelectSeq(rows, IsValid)

\* the fragment of one valid entry: its titled projects under its heading
RowFragment(row) ==
    LET HasTitle(project) == project.title # <<>>
    IN format_experience(row.company, row.role, row.dates, row.location,
                         SelectSeq(row.projects, HasTitle))

\* generate_latex is past its experience loop
PastExperience ==
    \/ gen.pc \in {"projects", "education", "certifications", "assemble",
                   "quality", "returned"}
    \/ gen.pc = "raised" /\ gen.raised_at \in {"projects", "quality"}

\* the records that have a company and a role
WithCompanyAndRole(experience) ==
    LET IsValid(exp) == /\ exp.company \notin {<<>>, NoKey}
                        /\ exp.role \notin {<<>>, NoKey}
    IN SelectSeq(experience, IsValid)

\* C16, as claimed: when generate_latex formats a list of experience records,
\* the loop raises nothing, the records missing a company or a role
\* contribute no fragment, and the fragments of the other records are there
\* in the list's order, in the loop's list and in the document's slot
C16_Original ==
    /\ gen.raised_at # "experience"
    /\ PastExperience =>
         gen.experiences = FormatExperiences(WithCompanyAndRole(gen.data.experience))
    /\ gen.pc = "returned" =>
         gen.resume.experience =
             Join(<<NL>>, FormatExperiences(WithCompanyAndRole(gen.data.experience)))

(***************************************************************************)
(* C17                                                                     *)
(***************************************************************************)
\* the place of the k-th chunk `marker` of s
NthPosition(s, marker, k) ==
    CHOOSE i \in 1..Len(s) :
        s[i] = marker /\ Cardinality({j \in 1..i : s[j] = marker}) = k

\* the chunks of s that follow its k-th chunk `marker`, as many as `text` has
AfterNth(s, marker, k, text) ==
    SubSeq(s, NthPosition(s, marker, k) + 1, NthPosition(s, marker, k) + Len(text))

\* one \item per entry, the k-th of them followed by the k-th entry: the
\* publication as given, the certification's escaped name
ItemPerEntry ==
    /\ fmt.fn = "format_publications" /\ fmt.arg # <<>> =>
         /\ Count(fmt.result, "\\section{Publications}") = 1
         /\ Count(fmt.result, "\\item ") = Len(fmt.arg)
         /\ \A k \in 1..Len(fmt.arg) :
               AfterNth(fmt.result, "\\item ", k, fmt.arg[k]) = fmt.arg[k]
    /\ fmt.fn = "format_certifications" /\ fmt.arg # <<>> =>
         /\ Count(fmt.result, "\\section{Certifications}") = 1
         /\ Count(fmt.result, "\\item") = Len(fmt.arg)
         /\ \A k \in 1..Len(fmt.arg) :
               AfterNth(fmt.result, "\\item", k,
                        <<NL, NL, " ">> \o EscapedOnce(fmt.arg[k].name))
                   = <<NL, NL, " ">> \o EscapedOnce(fmt.arg[k].name)

\* C17, as claimed: format_publications and format_certifications return the
\* empty string for an empty list; for a list with entries the fragment
\* starts with the section header and holds one item per entry, in the
\* list's order
C17_Original ==
    /\ fmt.fn = "format_publications" =>
         IF fmt.arg = <<>> THEN fmt.result = <<>>
         ELSE fmt.result[1] = "\\section{Publications}"
    /\ fmt.fn = "format_certifications" =>
         IF fmt.arg = <<>> THEN fmt.result = <<>>
         ELSE fmt.result[1] = "\\section{Certifications}"
    /\ ItemPerEntry

\* C17, amended: format_publications and format_certifications return the
\* empty string for an empty list, with no section header; for a list with
\* entries the fragment of format_certifications starts with the section
\* header and that of format_publications with a line break followed by the
\* section header, and each holds one item per entry, in the list's order
C17_HeaderAfterLineBreakForPublications ==
    /\ fmt.fn = "format_publications" =>
         IF fmt.arg = <<>> THEN fmt.result = <<>>
         ELSE /\ fmt.result[1] = NL
              /\ fmt.result[2] = "\\section{Publications}"
    /\ fmt.fn = "format_certifications" =>
         IF fmt.arg = <<>> THEN fmt.result = <<>>
         ELSE fmt.result[1] = "\\section{Certifications}"
    /\ ItemPerEntry

\* format_publications was called with two publications, and the fragment
\* holds them in the list's order after the line break and the header
C17_Witness ==
    /\ fmt.fn = "format_publications"
    /\ Len(fmt.arg) = 2
    /\ fmt.arg[1] # fmt.arg[2]
    /\ fmt.result[1] = NL
    /\ fmt.result[2] = "\\section{Publications}"
    /\ Count(fmt.result, "\\item ") = 2
    /\ AfterNth(fmt.result, "\\item ", 1, fmt.arg[1]) = fmt.arg[1]
    /\ AfterNth(fmt.result, "\\item ", 2, fmt.arg[2]) = fmt.arg[2]

(***************************************************************************)
(* C18                                                                     *)
(***************************************************************************)
\* the lines of a skills text that are not blank, stripped
SkillInputLines(skills_text) ==
    LET StripEach(lines) == [k \in 1..Len(lines) |-> Strip(lines[k])]
        NotBlank(line) == line # <<>>
    IN SelectSeq(StripEach(SplitLines(skills_text)), NotBlank)

\* the text of `line` before its first colon, and the text after it
BeforeColon(line) == SubSeq(line, 1, FirstOf(line, ":") - 1)
AfterColon(line) == SubSeq(line, FirstOf(line, ":") + 1, Len(line))

\* C18: the k-th line of the fragment after its opening line is the item of
\* the k-th non-blank line of the skills text; for a line with a colon it is
\* the bullet, the bold label, which is the escaped text before the first
\* colon followed by the colon, and the escaped text after that colon; and
\* every ampersand of the fragment stands behind a backslash
C18_ColonLinesBecomeBoldLabelAndValue ==
    fmt.fn = "format_skills" /\ fmt.arg # <<>> =>
        LET lines == SkillInputLines(fmt.arg)
            items == SplitLines(fmt.result)
        IN /\ Len(items) = Len(lines) + 2 \/ (lines = <<>> /\ Len(items) = 3)
           /\ \A k \in 1..Len(lines) :
                 FirstOf(lines[k], ":") > 0 =>
                     items[k + 1] =
                            <<"\\item[(bullet)] \\textbf{">>
                         \o EscapedOnce(Strip(BeforeColon(lines[k])))
                         \o <<":} ">>
                         \o EscapedOnce(Strip(AfterColon(lines[k])))
           /\ \A i \in 1..Len(fmt.result) :
                 fmt.result[i] = "&" => i > 1 /\ fmt.result[i - 1] = "\\"

\* format_skills was called with "R&D: testing" and a line with two colons
C18_Witness ==
    /\ fmt.fn = "format_skills"
    /\ fmt.arg = <<"R", "&", "D", ":", " ", "testing", NL,
                   "Languages", ":", " ", "Python,", " ", "Go", ":", "x">>
    /\ SplitLines(fmt.result)[2] =
          <<"\\item[(bullet)] \\textbf{", "R", "\\", "&", "D", ":} ", "testing">>
    /\ SplitLines(fmt.result)[3] =
          <<"\\item[(bullet)] \\textbf{", "Languages", ":} ", "Python,", " ", "Go", ":", "x">>

(***************************************************************************)
(* C19                                                                     *)
(***************************************************************************)
\* every section of the request has been formatted into its local
AllSectionsFormatted ==
    /\ gen.additional_links =
          format_contact_links(gen.data.github, gen.data.portfolio, None)
    /\ gen.summary # None
    /\ gen.skills # None
    /\ gen.experiences = FormatExperiences(gen.data.experience)
    /\ gen.projects_section # None
    /\ gen.education = FormatEducations(gen.data.education)
    /\ gen.certifications_section = format_certifications(gen.data.certifications)
    /\ gen.publications_section # None
    /\ gen.linkedin_url # None

\* C19: in one generate_latex request check_resume is called at most once;
\* when it is called every section has been formatted and put into the
\* template, and it is handed the whole document, the one that is returned;
\* a request with optimize_content = False returns without calling it, and
\* with the verdict None; a request with optimize_content = True that
\* returns has called it once and returns its verdict
C19_QualityCheckOnceOnWholeDocument ==
    /\ Len(gen.quality_calls) <= 1
    /\ gen.quality_calls # <<>> =>
          /\ gen.optimize_content
          /\ gen.pc \in {"returned", "raised"}
          /\ AllSectionsFormatted
          /\ gen.quality_calls[1] = Document(gen)
          /\ gen.quality_calls[1] = gen.resume
    /\ gen.pc = "returned" /\ ~gen.optimize_content =>
          /\ gen.quality_calls = <<>>
          /\ gen.quality_result = NoQualityCheck
    /\ gen.pc = "returned" /\ gen.optimize_content =>
          /\ Len(gen.quality_calls) = 1
          /\ gen.quality_result.outcome = "returned"

\* a request with optimize_content = True and publications returned: the
\* quality check was made once, on the document with the publications in it
C19_Witness ==
    /\ gen.pc = "returned"
    /\ gen.optimize_content
    /\ gen.data.publications # <<>>
    /\ Len(gen.quality_calls) = 1
    /\ gen.quality_calls[1].publications_section = gen.publications_section
    /\ gen.quality_calls[1].summary = escape_latex(gen.summary)
    /\ gen.quality_result.is_approved

(***************************************************************************)
(* C20                                                                     *)
(***************************************************************************)
\* C20: in a run of main() in which 'Generate Basic Resume (No LLM
\* Feedback)' was pressed, generate_latex is called without a job
\* description and with optimize_content = False; no Rewriter or Evaluator
\* call and no quality check is made; and the document that is returned is
\* made of the content the form collected, with no verdict to show
C20_BasicNoLlmMakesNoServiceCall ==
    app.button = "basic_no_llm" =>
        /\ calls[1] = <<>>
        /\ opt[1] = IdleFrame
        /\ gen.quality_calls = <<>>
        /\ gen.quality_result = NoQualityCheck
        /\ gen.pc # "idle" =>
              /\ gen.job_description = None
              /\ ~gen.optimize_content
              /\ gen.data = app.data
              /\ gen.pc \notin {"refining", "quality"}
        /\ gen.pc = "returned" =>
              /\ gen.resume.summary = escape_latex(escape_latex(app.form.summary))
              /\ gen.resume.skills = format_skills(app.form.skills)
              /\ gen.resume.experience =
                    Join(<<NL>>, FormatExperiences(collect_experience(app.form.experience)))
        /\ \A i \in 1..Len(app.shown) :
              app.shown[i] \notin {"feedback", "success: quality check passed",
                                   "warning: quality issues", "error: too long"}

\* the button was pressed on a form that names a target job, and the
\* document was generated and shown
C20_Witness ==
    /\ app.button = "basic_no_llm"
    /\ app.pc = "done"
    /\ gen.pc = "returned"
    /\ app.form.target_info = <<"ML engineer">>
    /\ app.shown = <<"info: new resume (unsaved)", "success: resume generated",
                     "download: tex", "download: pdf">>

(***************************************************************************)
(* C21.  As claimed: when 'Generate Optimized Resume' is pressed on a      *)
(* filled form with target information, and the service answers every     *)
(* call, generate_latex refines the sections with the Rewriter and the     *)
(* Evaluator and returns the assembled document.                           *)
(***************************************************************************)
C21_Original ==
    /\ app.button = "optimized"
    /\ app.pc = "done"
    /\ validate_required_fields(app.data)
    /\ Truthy(app.form.target_info)
    => /\ gen.pc = "returned"
       /\ PolisherCalls(1) # <<>>
       /\ CriticCalls(1) # <<>>

(***************************************************************************)
(* C22                                                                     *)
(***************************************************************************)
\* C22: when pdflatex is run, the .tex file holds the document handed to
\* save_and_compile; when pdflatex fails, save_and_compile returns, with
\* success = False, pdf_path = None and an error_message that holds what
\* pdflatex printed, as printed; and in every result that is returned,
\* success is True exactly when pdf_path is set, and exactly when
\* error_message is None
C22_WritesFirstAndReturnsFailure ==
    /\ sc.compiler \in {"succeeded", "failed"} => sc.compiled_from = sc.latex_content
    /\ sc.compiler = "failed" =>
          /\ sc.pc = "returned"
          /\ ~sc.result.success
          /\ sc.result.pdf_path = None
          /\ sc.result.error_message # None
          /\ IsSubText(sc.log, sc.result.error_message)
    /\ sc.pc = "returned" =>
          /\ sc.result.success <=> sc.result.pdf_path # None
          /\ sc.result.success <=> sc.result.error_message = None

\* pdflatex failed with output on both streams, on a document that replaced
\* another on the disk
C22_Witness ==
    /\ sc.pc = "returned"
    /\ sc.compiler = "failed"
    /\ sc.log = <<"! Undefined control sequence.", NL, "l.3 ", "\\", "foo", NL>>
    /\ sc.latex_content = <<"\\documentclass{article}", NL, "R", "\\", "&", "D">>
    /\ sc.disk = sc.latex_content
    /\ ~sc.result.success

(***************************************************************************)
(* C23.  As claimed: format_project emits one bullet per non-blank line    *)
(* of the description, in order, and the text of each bullet is the        *)
(* trimmed line escaped once.                                              *)
(***************************************************************************)
C23_Original ==
    fmt.fn = "format_project" =>
        LET lines == SkillInputLines(fmt.arg.description)
        IN /\ Count(fmt.result, "\\resumeItem{") = Len(lines)
           /\ \A k \in 1..Len(lines) :
                 AfterNth(fmt.result, "\\resumeItem{", k, EscapedOnce(lines[k]) \o <<"}">>)
                     = EscapedOnce(lines[k]) \o <<"}">>

(***************************************************************************)
(* C24.  The polisher and the critic pick their rubric by one rule: the    *)
(* job-specific rubric when a job description is given, the generic one    *)
(* when none is, whatever the content type, the round or the feedback.     *)
(* So within one call of optimize_content every prompt of both agents, in  *)
(* every round, carries a rubric of the same mode.                         *)
(***************************************************************************)
TargetAwareRubrics ==
    { "<ContentPolisher._JOB_SPECIFIC_SUMMARY_POINTS>",
      "<ContentPolisher._JOB_SPECIFIC_SKILLS_POINTS>",
      "<ContentPolisher._JOB_SPECIFIC_EXPERIENCE_POINTS>",
      "<ContentCritic._JOB_SPECIFIC_SUMMARY_POINTS>",
      "<ContentCritic._JOB_SPECIFIC_SKILLS_POINTS>",
      "<ContentCritic._JOB_SPECIFIC_EXPERIENCE_POINTS>" }

GenericRubrics ==
    { "<ContentPolisher._SUMMARY_FOCUS_POINTS>",
      "<ContentPolisher._SKILLS_FOCUS_POINTS>",
      "<ContentPolisher._EXPERIENCE_FOCUS_POINTS>",
      "<ContentCritic._SUMMARY_EVALUATION_POINTS>",
      "<ContentCritic._SKILLS_EVALUATION_POINTS>",
      "<ContentCritic._EXPERIENCE_EVALUATION_POINTS>" }

\* the rubric in the prompt of a logged call: the text after "Focus on:" or
\* after "Evaluate based on:"
RubricOf(c) ==
    IF c.agent = "polisher" THEN c.prompt[Len(c.prompt)] ELSE c.prompt[Len(c.prompt) - 1]

\* the class name in a rubric's name agrees with the agent
OwnRubric(c) ==
    IF c.agent = "polisher"
    THEN RubricOf(c) \in { "<ContentPolisher._JOB_SPECIFIC_SUMMARY_POINTS>",
                           "<ContentPolisher._JOB_SPECIFIC_SKILLS_POINTS>",
                           "<ContentPolisher._JOB_SPECIFIC_EXPERIENCE_POINTS>",
                           "<ContentPolisher._SUMMARY_FOCUS_POINTS>",
                           "<ContentPolisher._SKILLS_FOCUS_POINTS>",
                           "<ContentPolisher._EXPERIENCE_FOCUS_POINTS>" }
    ELSE RubricOf(c) \in { "<ContentCritic._JOB_SPECIFIC_SUMMARY_POINTS>",
                           "<ContentCritic._JOB_SPECIFIC_SKILLS_POINTS>",
                           "<ContentCritic._JOB_SPECIFIC_EXPERIENCE_POINTS>",
                           "<ContentCritic._SUMMARY_EVALUATION_POINTS>",
                           "<ContentCritic._SKILLS_EVALUATION_POINTS>",
                           "<ContentCritic._EXPERIENCE_EVALUATION_POINTS>" }

C24_RubricModeFollowsJobDescriptionOnly ==
    \A r \in Runs : \A i \in DOMAIN calls[r] :
        LET c == calls[r][i]
        IN /\ OwnRubric(c)
           /\ Truthy(opt[r].job_description) => RubricOf(c) \in TargetAwareRubrics
           /\ ~Truthy(opt[r].job_description) => RubricOf(c) \in GenericRubrics

\* a call on skills with a job description is in its second round, both
\* agents having been asked in the first, while a call on a summary without
\* one has had both agents asked
C24_Witness ==
    /\ opt[1].content_type = "skills"
    /\ Truthy(opt[1].job_description)
    /\ opt[1].current_round = 1
    /\ Len(calls[1]) = 4
    /\ opt[2].content_type = "summary"
    /\ ~Truthy(opt[2].job_description)
    /\ Len(calls[2]) >= 2
    /\ RubricOf(calls[1][3]) = "<ContentPolisher._JOB_SPECIFIC_SKILLS_POINTS>"
    /\ RubricOf(calls[1][4]) = "<ContentCritic._JOB_SPECIFIC_SKILLS_POINTS>"
    /\ RubricOf(calls[2][2]) = "<ContentCritic._SUMMARY_EVALUATION_POINTS>"


(***************************************************************************)
(* C25.  As claimed: when generate_latex is called with optimize_content   *)
(* set and no job description, the sections are still refined by           *)
(* optimize_content, with the generic rubrics.                             *)
(***************************************************************************)
C25_Original ==
    /\ gen.pc = "returned"
    /\ gen.optimize_content
    /\ ~Truthy(gen.job_description)
    => /\ PolisherCalls(1) # <<>>
       /\ \A i \in DOMAIN calls[1] : RubricOf(calls[1][i]) \in GenericRubrics

(***************************************************************************)
(* C26.  Calls of optimize_content on one ContentOptimizer whose steps     *)
(* interleave do not interfere: each call's log is the log the same call   *)
(* makes on its own when the service gives it the same answers, and its    *)
(* result is the result of that lone call.                                 *)
(***************************************************************************)
\* the answers the service gave call r, in order
AnswersGiven(r) == [i \in DOMAIN calls[r] |-> calls[r][i].response]

\* the log of a lone call from the given round on, the service answering
\* with `responses`: the loop of lines 283-305 run by itself
RECURSIVE SoloFrom(_, _, _, _, _, _, _, _)
SoloFrom(content, content_type, job_description, bound, round, candidate, previous_feedback, responses) ==
    IF responses = <<>> \/ ~(round < bound) THEN <<>>
    ELSE LET arg == IF round = 0 THEN content ELSE candidate
             p == CallRecord("polisher", round, arg, previous_feedback,
                             PolishPrompt(arg, content_type, job_description,
                                          previous_feedback),
                             responses[1], FALSE)
         IN IF responses[1] = Raised \/ Len(responses) = 1 THEN <<p>>
            ELSE LET satisfied == responses[2] # Raised /\ IsSatisfied(responses[2])
                     e == CallRecord("critic", round, content, responses[1],
                                     EvaluatePrompt(content, responses[1], content_type,
                                                    job_description),
                                     responses[2], satisfied)
                 IN IF responses[2] = Raised \/ satisfied THEN <<p, e>>
                    ELSE <<p, e>> \o SoloFrom(content, content_type, job_description,
                                              bound, round + 1, responses[1],
                                              responses[2], SubSeq(responses, 3, Len(responses)))

\* the lone call has returned after these answers, and what it returned
SoloReturned(bound, responses) ==
    /\ Len(responses) % 2 = 0
    /\ \A i \in DOMAIN responses : responses[i] # Raised
    /\ \/ Len(responses) = 2 * bound
       \/ Len(responses) > 0 /\ IsSatisfied(responses[Len(responses)])

SoloResult(content, responses) ==
    IF responses = <<>> THEN content ELSE responses[Len(responses) - 1]

SoloRaised(responses) == responses # <<>> /\ responses[Len(responses)] = Raised

C26_InterleavedRunsBehaveAsAlone ==
    \A r \in Runs :
        LET f == opt[r]
        IN f.pc # "idle" =>
             /\ calls[r] = SoloFrom(f.content, f.content_type, f.job_description,
                                    max_rounds, 0, f.content, None, AnswersGiven(r))
             /\ f.pc = "done" <=> SoloReturned(max_rounds, AnswersGiven(r))
             /\ f.pc = "done" => f.result = SoloResult(f.content, AnswersGiven(r))
             /\ f.pc = "raised" <=> SoloRaised(AnswersGiven(r))

\* both calls are in their second round at once, each holding its own
\* candidate and the feedback it was given
C26_Witness ==
    /\ opt[1].pc = "evaluate"
    /\ opt[2].pc = "evaluate"
    /\ opt[1].current_round = 1
    /\ opt[2].current_round = 1
    /\ opt[1].optimized_content = <<"drove results">>
    /\ opt[2].optimized_content = <<"shipped index">>
    /\ Len(calls[1]) = 3
    /\ Len(calls[2]) = 3

(***************************************************************************)
(* C27.  As claimed: over any sequence of Load, Save and Save As, a file   *)
(* that exists is not replaced by a resume that was new (never saved or    *)
(* loaded in the session) unless the user confirmed the overwrite.         *)
(***************************************************************************)
C27_Original ==
    [][\A n \in ResumeNames :
          /\ ui.is_new_resume
          /\ ui.files[n] # Absent
          /\ ui'.files[n] # ui.files[n]
          => ui'.asked = "confirmed"]_vars

(***************************************************************************)
(* C28.  A polisher or critic call that fails, in any round, ends          *)
(* optimize_content with the exception: the failed call is the last call   *)
(* of the run, and the run returns nothing, whatever candidates earlier    *)
(* rounds produced.                                                        *)
(***************************************************************************)
C28_FailurePropagatesAtOnce ==
    /\ \A i \in DOMAIN calls[1] :
          calls[1][i].response = Raised =>
              /\ i = Len(calls[1])
              /\ opt[1].pc = "raised"
              /\ opt[1].result = NoResult
    /\ opt[1].pc = "raised" =>
          /\ calls[1] # <<>>
          /\ calls[1][Len(calls[1])].response = Raised
          /\ opt[1].result = NoResult

\* the critic fails in the second round, after a first round that produced
\* a candidate and a verdict
C28_Witness ==
    /\ opt[1].pc = "raised"
    /\ Len(calls[1]) = 4
    /\ calls[1][4].agent = "critic"
    /\ calls[1][4].response = Raised
    /\ calls[1][1].response = <<"drove results">>
    /\ calls[1][3].response = <<"led 5 engineers">>
    /\ opt[1].result = NoResult

(***************************************************************************)
(* C29.  The calls of a run alternate polisher, critic, polisher, ...,     *)
(* starting with the polisher; each critic call is given the original      *)
(* content and the candidate of the polisher call just before it, in the   *)
(* same round; and when the run has returned, converged or exhausted,      *)
(* there are as many critic calls as polisher calls.  (A run that a        *)
(* failing polisher call ends has made one polisher call more.)            *)
(***************************************************************************)
Alternates(r) ==
    \A i \in DOMAIN calls[r] :
        LET c == calls[r][i]
        IN IF i % 2 = 1
           THEN /\ c.agent = "polisher"
                /\ c.round = (i - 1) \div 2
           ELSE /\ c.agent = "critic"
                /\ c.round = calls[r][i - 1].round
                /\ c.original = opt[r].content
                /\ c.optimized = calls[r][i - 1].response
                /\ c.prompt = EvaluatePrompt(opt[r].content, calls[r][i - 1].response,
                                             opt[r].content_type, opt[r].job_description)

C29_AlternateAndPairedAtReturn ==
    /\ Alternates(1)
    /\ opt[1].pc = "done" => Len(CriticCalls(1)) = Len(PolisherCalls(1))
    /\ opt[1].pc = "raised" =>
          Len(PolisherCalls(1)) - Len(CriticCalls(1))
              = IF calls[1][Len(calls[1])].agent = "polisher" THEN 1 ELSE 0

\* the round bound ends a run of two rounds whose critic was never
\* satisfied: the second candidate was evaluated too
C29_Witness ==
    /\ opt[1].pc = "done"
    /\ max_rounds = 2
    /\ Len(calls[1]) = 4
    /\ ~opt[1].is_satisfied
    /\ opt[1].content = <<"led team">>
    /\ calls[1][4].original = <<"led team">>
    /\ calls[1][4].optimized = <<"led 5 engineers">>
    /\ calls[1][2].optimized = <<"drove results">>

(***************************************************************************)
(* C30.  Whichever generate button is pressed, when a required field of    *)
(* the form is empty (name, email, phone, location, linkedin, summary,     *)
(* skills, no experience entry with company and role, no education entry   *)
(* with school and degree), or the phone number typed has not exactly ten  *)
(* digits, main() shows the error and stops: generate_latex is not         *)
(* called, no agent or quality-check call is made, no file is written:    *)
(* the output folder is as an earlier run left it.                         *)
(***************************************************************************)
DigitCount(text) == Cardinality({i \in DOMAIN text : text[i] \in Digits})

FormIncomplete(form) ==
    \/ form.name = <<>>
    \/ form.email = <<>>
    \/ DigitCount(form.phone) # 10
    \/ form.location = <<>>
    \/ form.linkedin = <<>>
    \/ form.summary = <<>>
    \/ form.skills = <<>>
    \/ ValidExperienceRows(form.experience) = <<>>
    \/ \A i \in DOMAIN form.education :
          form.education[i].school = <<>> \/ form.education[i].degree = <<>>

C30_IncompleteFormGeneratesNothing ==
    (app.button # "none" /\ FormIncomplete(app.form)) =>
        /\ app.pc = "done"
        /\ app.shown = MainShown(ui) \o <<"error: fill in all required fields">>
        /\ gen = IdleGen
        /\ calls[1] = <<>>
        /\ opt[1] = IdleFrame
        /\ qc_result.outcome = "none"
        /\ app.file_base = None
        /\ sc \in MainFolders
        /\ ui.written = None
        /\ \E session \in MainSessions :
              ui.files = session.files /\ ui.last_used = session.last_used

\* 'Generate Optimized Resume' pressed on a form naming a target job, whose
\* only flaw is a phone number of three digits
C30_Witness ==
    /\ app.button = "optimized"
    /\ app.pc = "done"
    /\ app.form.phone = <<"5", "5", "5">>
    /\ app.form.name = <<"Ada">>
    /\ app.form.summary # <<>>
    /\ app.form.linkedin # <<>>
    /\ app.form.target_info = <<"ML engineer">>
    /\ Len(ValidExperienceRows(app.form.experience)) = 2
    /\ app.data.phone = <<>>
    /\ app.shown = <<"info: new resume (unsaved)",
                     "error: phone number must be exactly 10 digits",
                     "error: fill in all required fields">>

====
